---- MODULE Spec2Model ----
(***************************************************************************)
(* Reverse debugging core of DeZog.                                        *)
(*                                                                         *)
(*  - ZxSimCpuHistory (src/src/remotes/zsimulator/zx128memory.ts): the     *)
(*    ring buffer of history lines of the internal simulator, with its     *)
(*    read cursor (historyIndex) and write cursor (historyWriteIndex).     *)
(*    Specification: Spec.                                                 *)
(*  - ZesaruxEmulator (src/unnamed/part_003): the virtual call stack that  *)
(*    is rebuilt while stepping through the cpu transaction log.           *)
(*    Specification: SpecZ.                                                *)
(*  - ZesaruxEmulator.findCallOrRst: the classification of the bytes in    *)
(*    front of a return address.  Specification: SpecF.                    *)
(*  - ZesaruxEmulator breakpoints: the pool of free breakpoint ids.        *)
(*    Specification: SpecBp.                                               *)
(*  - ZesaruxEmulator.setWatchpoints.  Specification: SpecWp.              *)
(***************************************************************************)
EXTENDS Integers, Sequences, FiniteSets, TLC

VARIABLES
    \* ---- ZxSimCpuHistory ----
    history,            \* the ring buffer; JS index i is history[i+1]
    historyIndex,       \* read cursor, -1 = live
    historyWriteIndex,  \* write cursor, -1 = none
    maxSize,            \* capacity of the ring buffer
    revDbgHistory,      \* addresses visited while reverse debugging
    reverseDbgStack,    \* the virtual call stack, or Undefined
    \* ---- observation of the calls made on ZxSimCpuHistory ----
    lastOp,             \* name of the last operation
    lastLine,           \* line passed to the last push, or returned by the last step
    addrResult,         \* argument and return value of the last getPreviousAddress
    preIndex,           \* historyIndex before the last operation
    pushCount,          \* number of plain pushes since init(), while only those happened
    plainOnly,          \* TRUE while only plain pushes happened since init()
    nBack,              \* stepBack calls made in a row, the first one at the live edge
    nFwd,               \* stepForward calls made in a row after those
    overwritten,        \* JS indices overwritten by a push since rewind was entered
    \* ---- ZesaruxEmulator ----
    log,                \* the cpu transaction log, oldest line first
    logPos,             \* position in the log, 0 = live (not in step back mode)
    liveRegs,           \* the registers of the emulator at the live edge
    realCallers,        \* the caller frames of the real stack at the live edge
    zOp,                \* observation: the last emulator operation
    zError,             \* observation: error text of the last operation, or NoError
    zEvents,            \* observation: what the last operation emitted and called
    \* ---- ZesaruxEmulator.findCallOrRst ----
    memory,             \* the 3 bytes in front of the return address
    callOrRst,          \* observation: what findCallOrRst passed to its handler
    \* ---- ZesaruxEmulator breakpoints ----
    freeBreakpointIds,  \* the pool of free breakpoint ids
    breakpoints,        \* the active breakpoints
    bpLast,             \* observation: the last breakpoint operation and its outcome
    nRemoved,           \* number of removeBreakpoint calls made
    \* ---- ZesaruxEmulator.setWatchpoints ----
    wpSent,             \* commands sent to the socket by the last setWatchpoints
    wpWarnings,         \* warnings emitted by the last setWatchpoints
    wpHandled,          \* watchpoints passed to the completion handler
    \* ---- DebugSessionClass: the serializer and the commands at the remote ----
    serQueue,           \* CallSerializer: the queued functions, the first is executing
    outstanding,        \* commands started at the remote and not completed, in order
    nRequests,          \* number of requests received
    \* ---- the memory models and CustomMemory ----
    memVariant,         \* the memory model in use: ZX16, ZX48, ZX128, ZXNEXT, CUSTOM
    memModel,           \* the declared slots a custom memory is constructed from
    customMemory,       \* what the constructor of CustomMemory produced
    mResult,            \* observation: the last query of the memory model
    \* ---- ZesaruxEmulator: the real stack of the stopped program ----
    lSP,                \* the stack pointer
    lCycle,             \* what the words from SP upwards are, repeated cyclically
    lResult,            \* observation: the last request and what it did
    \* ---- DebugSessionClass: the requests that pass the serializer ----
    tQueue,             \* CallSerializer: the queued functions, the first is executing
    tCalls,             \* the calls of the remote that have not ended
    stackTraceResponses,\* the stack trace requests that wait for their response
    tSent,              \* per request: the responses sent
    tFrames,            \* per stack trace request: the request whose frames it got
    tCount,             \* number of requests received
    \* ---- ZesaruxEmulator: continue and pause of the running program ----
    state,              \* EmulatorState: "IDLE" or "RUNNING"
    cAwaited,           \* the command of continue() whose answer is awaited
    cBlank,             \* pause() has sent a blank that was not consumed yet
    cPaused,            \* a pause was sent while this continue was in flight
    cHandler,           \* observation: calls of contStoppedHandler of this continue
    cHandlerState,      \* observation: the state when the handler was called
    cReason,            \* the reason the emulator gave when it answered 'run'
    cLogClosing,        \* handleTransactionLog() waits for its answer
    cCount,             \* number of continues issued
    \* ---- ZxSimCpuHistory: the history spot ----
    spot,               \* observation: what the last emitHistorySpot() did
    \* ---- CustomMemory: the bank control ports ----
    pModel,             \* ZSimCustomMemoryModel: the declared slots with their control
    pSlots,             \* SimulatedMemory.slots: the bank of every slot
    pOut                \* observation: the last write to a port

histVars == <<history, historyIndex, historyWriteIndex, maxSize>>
obsVars  == <<lastOp, lastLine, addrResult, preIndex, pushCount, plainOnly, nBack, nFwd,
             overwritten>>
zVars    == <<log, logPos, liveRegs, realCallers, zOp, zError, zEvents>>
fVars    == <<memory, callOrRst>>
bpVars   == <<freeBreakpointIds, breakpoints, bpLast, nRemoved>>
wpVars   == <<wpSent, wpWarnings, wpHandled>>
sVars    == <<serQueue, outstanding, nRequests>>
mVars    == <<memVariant, memModel, customMemory, mResult>>
lVars    == <<lSP, lCycle, lResult>>
tVars    == <<tQueue, tCalls, stackTraceResponses, tSent, tFrames, tCount>>
cVars    == <<state, cAwaited, cBlank, cPaused, cHandler, cHandlerState,
              cReason, cLogClosing, cCount>>
hVars    == <<spot>>
pVars    == <<pModel, pSlots, pOut>>
yVars    == <<lVars, tVars, cVars, hVars, pVars>>
xVars    == <<sVars, mVars, yVars>>
eVars    == <<fVars, bpVars, wpVars, xVars>>
vars     == <<histVars, revDbgHistory, reverseDbgStack, obsVars, zVars, eVars>>

-----------------------------------------------------------------------------
(* Bounds of the model *)

\* largest capacity of the ring buffer that is explored
MaxCap == 3
\* largest number of plain pushes counted since init()
MaxPushes == 7
\* largest offset passed to getPreviousAddress
MaxOffset == 4

\* the history lines that are pushed (a line is known by its pc)
HistLines == { [pc |-> 32768], [pc |-> 32769], [pc |-> 32770] }

\* 'undefined' as a returned line
NONE == [pc |-> -1]
\* 'undefined' as a returned address
NoAddr == -1
\* getAddress() raised an exception
Thrown == -2
\* 'undefined' for the virtual stack
Undefined == << [pc |-> -1, sp |-> -1, name |-> "undefined"] >>

-----------------------------------------------------------------------------
(* ZxSimCpuHistory: the operations as functions of the store's fields *)

\* this.history[index] = line  (JS array assignment)
SetAt(h, index, line) ==
    IF index >= 0 /\ index < Len(h) THEN [h EXCEPT ![index + 1] = line]
    ELSE IF index >= Len(h)
         THEN h \o [i \in 1..(index - Len(h)) |-> NONE] \o << line >>
         ELSE h

\* this.history[index]  (JS array read)
GetAt(h, index) ==
    IF index >= 0 /\ index < Len(h) THEN h[index + 1] ELSE NONE

\* CpuHistoryClass.init(): empty history, read cursor live
CpuHistoryInit ==
    [history |-> << >>, historyIndex |-> -1]

\* mutant: the overflow check of the write index is missing
PushHistoryInfoNoWrap(h, w, m, line, exchange) ==
    IF exchange /\ Len(h) > 0
    THEN [history |-> SetAt(h, w, line), historyWriteIndex |-> w]
    ELSE IF Len(h) >= m
         THEN [history |-> SetAt(h, w + 1, line), historyWriteIndex |-> w + 1]
         ELSE [history |-> Append(h, line), historyWriteIndex |-> w + 1]

\* mutant: exchange is ignored, the line is always added
PushHistoryInfoNoExchange(h, w, m, line, exchange) ==
    IF Len(h) >= m
    THEN LET index == IF w + 1 >= m THEN 0 ELSE w + 1
         IN  [history |-> SetAt(h, index, line), historyWriteIndex |-> index]
    ELSE [history |-> Append(h, line), historyWriteIndex |-> w + 1]

\* pushHistoryInfo(line, exchange)
PushHistoryInfo(h, w, m, line, exchange) ==
    IF exchange /\ Len(h) > 0
    THEN [history |-> SetAt(h, w, line), historyWriteIndex |-> w]
    ELSE IF Len(h) >= m
         THEN LET index == IF w + 1 >= m THEN 0 ELSE w + 1
              IN  [history |-> SetAt(h, index, line), historyWriteIndex |-> index]
         ELSE [history |-> Append(h, line), historyWriteIndex |-> w + 1]

\* mutant: the check for the write index (end of history) is missing
GetPrevRegistersNoStop(h, r, w) ==
    IF r < 0
    THEN [historyIndex |-> w, regs |-> GetAt(h, w)]
    ELSE LET index == IF r - 1 < 0 THEN Len(h) - 1 ELSE r - 1
         IN  [historyIndex |-> index, regs |-> GetAt(h, index)]

\* getPrevRegistersAsync()
GetPrevRegisters(h, r, w) ==
    IF r < 0
    THEN [historyIndex |-> w, regs |-> GetAt(h, w)]
    ELSE LET index == IF r - 1 < 0 THEN Len(h) - 1 ELSE r - 1
         IN  IF index = w
             THEN [historyIndex |-> r, regs |-> NONE]
             ELSE [historyIndex |-> index, regs |-> GetAt(h, index)]

\* mutant: the read index is advanced before the check for the write index
GetNextRegistersEarly(h, r, w) ==
    LET index == IF r + 1 >= Len(h) THEN 0 ELSE r + 1
    IN  IF index = w
        THEN [historyIndex |-> -1, regs |-> NONE]
        ELSE [historyIndex |-> index, regs |-> GetAt(h, index)]

\* getNextRegisters()
GetNextRegisters(h, r, w) ==
    IF r = w
    THEN [historyIndex |-> -1, regs |-> NONE]
    ELSE LET index == IF r + 1 >= Len(h) THEN 0 ELSE r + 1
         IN  [historyIndex |-> index, regs |-> GetAt(h, index)]

\* CpuHistoryClass.getAddress(line): the pc recorded in the line; what it
\* does with an undefined line is not known (the possible outcomes)
GetAddress(h, k) ==
    IF k >= 0 /\ k < Len(h) THEN { h[k + 1].pc } ELSE { NoAddr, Thrown }

\* getPreviousAddress(i): the set of possible return values
GetPreviousAddress(h, r, w, i) ==
    IF Len(h) = 0 THEN { NoAddr }
    ELSE LET k0 == r - i
             k  == IF k0 < 0 THEN k0 + Len(h) ELSE k0
         IN  IF k = w THEN { NoAddr } ELSE GetAddress(h, k)

-----------------------------------------------------------------------------
(* ZxSimCpuHistory: the state machine *)

NoAddrResult == [i |-> 0, value |-> NoAddr]

\* constructor followed by init()
InitHist ==
    /\ history = CpuHistoryInit.history
    /\ historyIndex = CpuHistoryInit.historyIndex
    /\ historyWriteIndex = -1
    /\ maxSize \in 1..MaxCap
    /\ revDbgHistory = << >>
    /\ reverseDbgStack = Undefined
    /\ lastOp = "init"
    /\ lastLine = NONE
    /\ addrResult = NoAddrResult
    /\ preIndex = -1
    /\ pushCount = 0
    /\ plainOnly = TRUE
    /\ nBack = 0
    /\ nFwd = 0
    /\ overwritten = {}

\* init()
init ==
    /\ history' = CpuHistoryInit.history
    /\ historyIndex' = CpuHistoryInit.historyIndex
    /\ historyWriteIndex' = -1
    /\ lastOp' = "init"
    /\ lastLine' = NONE
    /\ addrResult' = NoAddrResult
    /\ preIndex' = historyIndex
    /\ pushCount' = 0
    /\ plainOnly' = TRUE
    /\ nBack' = 0
    /\ nFwd' = 0
    /\ overwritten' = {}
    /\ UNCHANGED <<maxSize, revDbgHistory, reverseDbgStack, zVars, eVars>>

\* mutant: clear() empties the buffer, as init() does
clearTruncating ==
    /\ history' = << >>
    /\ historyWriteIndex' = -1
    /\ historyIndex' = -1
    /\ revDbgHistory' = << >>
    /\ reverseDbgStack' = Undefined
    /\ lastOp' = "clear"
    /\ lastLine' = NONE
    /\ addrResult' = NoAddrResult
    /\ preIndex' = historyIndex
    /\ pushCount' = 0
    /\ plainOnly' = FALSE
    /\ nBack' = 0
    /\ nFwd' = 0
    /\ overwritten' = {}
    /\ UNCHANGED <<maxSize, zVars, eVars>>

\* clear()
clear ==
    /\ historyIndex' = -1
    /\ revDbgHistory' = << >>
    /\ reverseDbgStack' = Undefined
    /\ lastOp' = "clear"
    /\ lastLine' = NONE
    /\ addrResult' = NoAddrResult
    /\ preIndex' = historyIndex
    /\ pushCount' = 0
    /\ plainOnly' = FALSE
    /\ nBack' = 0
    /\ nFwd' = 0
    /\ overwritten' = {}
    /\ UNCHANGED <<history, historyWriteIndex, maxSize, zVars, eVars>>

\* pushHistoryInfo(line, exchange)
pushHistoryInfo(line, exchange) ==
    LET p == PushHistoryInfo(history, historyWriteIndex, maxSize, line, exchange)
        written == IF Len(p.history) = Len(history)
                   THEN { p.historyWriteIndex } ELSE {}
    IN  /\ (plainOnly /\ ~exchange) => pushCount < MaxPushes
        /\ history' = p.history
        /\ historyWriteIndex' = p.historyWriteIndex
        /\ lastOp' = IF exchange THEN "exchange" ELSE "push"
        /\ lastLine' = line
        /\ addrResult' = NoAddrResult
        /\ preIndex' = historyIndex
        /\ plainOnly' = (plainOnly /\ ~exchange)
        /\ pushCount' = IF plainOnly /\ ~exchange THEN pushCount + 1 ELSE 0
        /\ nBack' = 0
        /\ nFwd' = 0
        /\ overwritten' = IF historyIndex = -1 THEN {} ELSE overwritten \cup written
        /\ UNCHANGED <<historyIndex, maxSize, revDbgHistory, reverseDbgStack, zVars, eVars>>

\* getPrevRegistersAsync()
getPrevRegistersAsync ==
    LET g == GetPrevRegisters(history, historyIndex, historyWriteIndex)
        counted == historyIndex = -1 \/ (nBack > 0 /\ nFwd = 0)
    IN  /\ historyIndex' = g.historyIndex
        /\ lastLine' = g.regs
        /\ lastOp' = "stepBack"
        /\ addrResult' = NoAddrResult
        /\ preIndex' = historyIndex
        /\ nBack' = IF historyIndex = -1 THEN 1
                    ELSE IF counted THEN (IF nBack < MaxCap + 2 THEN nBack + 1 ELSE nBack)
                    ELSE 0
        /\ nFwd' = 0
        /\ plainOnly' = FALSE
        /\ pushCount' = 0
        /\ UNCHANGED <<history, historyWriteIndex, maxSize, revDbgHistory,
                       reverseDbgStack, overwritten, zVars, eVars>>

\* getNextRegisters()
getNextRegisters ==
    LET g == GetNextRegisters(history, historyIndex, historyWriteIndex)
        counted == nBack > 0 /\ nFwd < nBack
    IN  /\ historyIndex' = g.historyIndex
        /\ lastLine' = g.regs
        /\ lastOp' = "stepForward"
        /\ addrResult' = NoAddrResult
        /\ preIndex' = historyIndex
        /\ nBack' = IF counted THEN nBack ELSE 0
        /\ nFwd' = IF counted THEN nFwd + 1 ELSE 0
        /\ plainOnly' = FALSE
        /\ pushCount' = 0
        /\ overwritten' = IF g.historyIndex = -1 THEN {} ELSE overwritten
        /\ UNCHANGED <<history, historyWriteIndex, maxSize, revDbgHistory,
                       reverseDbgStack, zVars, eVars>>

\* getPreviousAddress(i)
getPreviousAddress(i) ==
    /\ \E a \in GetPreviousAddress(history, historyIndex, historyWriteIndex, i) :
           addrResult' = [i |-> i, value |-> a]
    /\ lastOp' = "getPreviousAddress"
    /\ lastLine' = NONE
    /\ preIndex' = historyIndex
    /\ plainOnly' = FALSE
    /\ pushCount' = 0
    /\ nBack' = 0
    /\ nFwd' = 0
    /\ UNCHANGED <<histVars, revDbgHistory, reverseDbgStack, overwritten, zVars, eVars>>

PushPlain    == \E line \in HistLines : pushHistoryInfo(line, FALSE)
PushExchange == \E line \in HistLines : pushHistoryInfo(line, TRUE)
AddressAt    == \E i \in 0..MaxOffset : getPreviousAddress(i)

NextHist ==
    \/ init
    \/ clear
    \/ PushPlain
    \/ PushExchange
    \/ getPrevRegistersAsync
    \/ getNextRegisters
    \/ AddressAt

-----------------------------------------------------------------------------
(* ZesaruxEmulator: lines of the cpu transaction log, frames, labels *)

\* largest number of lines in the cpu transaction log
MaxLog == 2
\* largest number of caller frames on the real stack when the session starts
MaxDepth == 1
\* largest number of addresses kept in revDbgHistory
MaxVisited == 3

\* topOfStack of the debugged program (0xFF00)
TopOfStack == 65280
\* the addresses the program counter takes (0x8000, 0x9000)
PCS == { 32768, 36864 }

\* Instruction texts of the log, as sequences of characters
InstrRET  == << "R", "E", "T" >>
InstrCALL == << "C", "A", "L", "L" >>
InstrRST  == << "R", "S", "T" >>
InstrNOP  == << "N", "O", "P" >>
InstrPOP  == << "P", "O", "P" >>

\* String.startsWith
StartsWith(str, prefix) ==
    Len(str) >= Len(prefix) /\ SubSeq(str, 1, Len(prefix)) = prefix

\* no line: revDbgPrev()/revDbgNext() returned undefined
NoLine == [pc |-> -1, sp |-> -1, instr |-> << >>]

NoError == "none"
AssertionError == "AssertionError"
EndOfHistory == "Reached end of instruction history."

TypeError == "TypeError"

\* what reading .length of the stack and asserting it to be > 0 throws
StackError(stack) == IF stack = Undefined THEN TypeError ELSE AssertionError

\* new Frame(addr, sp, name)
Frame(pc, sp, name) == [pc |-> pc, sp |-> sp, name |-> name]

\* Utility.getHexString(value, size)
HexDigits == << "0", "1", "2", "3", "4", "5", "6", "7",
                "8", "9", "A", "B", "C", "D", "E", "F" >>

RECURSIVE GetHexString(_, _)
GetHexString(value, size) ==
    IF size = 0 THEN ""
    ELSE GetHexString(value \div 16, size - 1) \o HexDigits[(value % 16) + 1]

\* Labels.getLabelsForNumber(addr): the program has a label at 0x8000 only
GetLabelsForNumber(addr) ==
    IF addr = 32768 THEN << "L8000" >> ELSE << >>

\* the label of a called address, or its hex value
LabelCallAddr(callAddr) ==
    LET labelCallAddrArr == GetLabelsForNumber(callAddr)
    IN  IF Len(labelCallAddrArr) > 0 THEN labelCallAddrArr[1]
        ELSE GetHexString(callAddr, 4) \o "h"

\* name of the frame pushed for a RET when stepping back
CallerPlaceholder == "TODO: CALL caller name"

-----------------------------------------------------------------------------
(* ZesaruxTransactionLog: position in the log *)

\* prevLine(): one line back; FALSE if there is none
PrevLine(len, pos) ==
    IF pos = 0
    THEN IF len > 0 THEN [pos |-> len, ok |-> TRUE] ELSE [pos |-> 0, ok |-> FALSE]
    ELSE IF pos > 1 THEN [pos |-> pos - 1, ok |-> TRUE]
         ELSE [pos |-> pos, ok |-> FALSE]

\* nextLine(): one line forward; FALSE (and live again) after the newest line
NextLine(len, pos) ==
    IF pos # 0 /\ pos < len THEN [pos |-> pos + 1, ok |-> TRUE]
    ELSE [pos |-> 0, ok |-> FALSE]

\* isInStepBackMode()
IsInStepBackMode == logPos # 0

-----------------------------------------------------------------------------
(* ZesaruxEmulator: the virtual stack *)

\* mutant: the instruction of the line that is left decides, not the one
\* of the line that is stepped to
HandleReverseDebugStackBackLeft(stack, currentLine, prevLine) ==
    IF stack = Undefined \/ Len(stack) = 0
    THEN [stack |-> stack, err |-> StackError(stack)]
    ELSE LET s1 == Tail(stack)
             top == Frame(currentLine.pc, currentLine.sp, "PC")
         IN  IF StartsWith(prevLine.instr, InstrRET)
             THEN [stack |-> << top, Frame(currentLine.pc, currentLine.sp,
                                           CallerPlaceholder) >> \o s1,
                   err |-> NoError]
             ELSE IF StartsWith(prevLine.instr, InstrCALL)
                     \/ StartsWith(prevLine.instr, InstrRST)
             THEN IF currentLine.sp > prevLine.sp
                  THEN IF Len(s1) = 0
                       THEN [stack |-> s1, err |-> AssertionError]
                       ELSE [stack |-> << top >> \o Tail(s1), err |-> NoError]
                  ELSE [stack |-> << top >> \o s1, err |-> NoError]
             ELSE [stack |-> << top >> \o s1, err |-> NoError]

\* mutant: the comparison of the stack pointers is turned around
HandleReverseDebugStackBackSwapped(stack, currentLine, prevLine) ==
    IF stack = Undefined \/ Len(stack) = 0
    THEN [stack |-> stack, err |-> StackError(stack)]
    ELSE LET s1 == Tail(stack)
             top == Frame(currentLine.pc, currentLine.sp, "PC")
         IN  IF StartsWith(currentLine.instr, InstrRET)
             THEN [stack |-> << top, Frame(currentLine.pc, currentLine.sp,
                                           CallerPlaceholder) >> \o s1,
                   err |-> NoError]
             ELSE IF StartsWith(currentLine.instr, InstrCALL)
                     \/ StartsWith(currentLine.instr, InstrRST)
             THEN IF currentLine.sp < prevLine.sp
                  THEN IF Len(s1) = 0
                       THEN [stack |-> s1, err |-> AssertionError]
                       ELSE [stack |-> << top >> \o Tail(s1), err |-> NoError]
                  ELSE [stack |-> << top >> \o s1, err |-> NoError]
             ELSE [stack |-> << top >> \o s1, err |-> NoError]

\* handleReverseDebugStackBack that leaves the frame of the current PC on
\* the stack
HandleReverseDebugStackBackKeepTop(stack, currentLine, prevLine) ==
    IF stack = Undefined \/ Len(stack) = 0
    THEN [stack |-> stack, err |-> StackError(stack)]
    ELSE LET top == Frame(currentLine.pc, currentLine.sp, "PC")
         IN  IF StartsWith(currentLine.instr, InstrRET)
             THEN [stack |-> << top, Frame(currentLine.pc, currentLine.sp,
                                           CallerPlaceholder) >> \o stack,
                   err |-> NoError]
             ELSE [stack |-> << top >> \o stack, err |-> NoError]

\* handleReverseDebugStackBack that skips a pop from an empty stack
HandleReverseDebugStackBackLenient(stack, currentLine, prevLine) ==
    LET s0 == IF stack = Undefined THEN << >> ELSE stack
        s1 == IF Len(s0) = 0 THEN s0 ELSE Tail(s0)
        top == Frame(currentLine.pc, currentLine.sp, "PC")
    IN  IF StartsWith(currentLine.instr, InstrRET)
        THEN [stack |-> << top, Frame(currentLine.pc, currentLine.sp,
                                      CallerPlaceholder) >> \o s1,
              err |-> NoError]
        ELSE IF (StartsWith(currentLine.instr, InstrCALL)
                 \/ StartsWith(currentLine.instr, InstrRST))
                /\ currentLine.sp > prevLine.sp /\ Len(s1) > 0
        THEN [stack |-> << top >> \o Tail(s1), err |-> NoError]
        ELSE [stack |-> << top >> \o s1, err |-> NoError]

\* handleReverseDebugStackBack(currentLine, prevLine): the stack afterwards
\* and the error thrown, if any
HandleReverseDebugStackBack(stack, currentLine, prevLine) ==
    IF stack = Undefined \/ Len(stack) = 0
    THEN [stack |-> stack, err |-> StackError(stack)]
    ELSE LET s1 == Tail(stack)
             top == Frame(currentLine.pc, currentLine.sp, "PC")
         IN  IF StartsWith(currentLine.instr, InstrRET)
             THEN [stack |-> << top, Frame(currentLine.pc, currentLine.sp,
                                           CallerPlaceholder) >> \o s1,
                   err |-> NoError]
             ELSE IF StartsWith(currentLine.instr, InstrCALL)
                     \/ StartsWith(currentLine.instr, InstrRST)
             THEN IF currentLine.sp > prevLine.sp
                  THEN IF Len(s1) = 0
                       THEN [stack |-> s1, err |-> AssertionError]
                       ELSE [stack |-> << top >> \o Tail(s1), err |-> NoError]
                  ELSE [stack |-> << top >> \o s1, err |-> NoError]
             ELSE [stack |-> << top >> \o s1, err |-> NoError]

\* name of the frame pushed for a CALL or RST when stepping forward
CallName(instr, callAddr) ==
    (IF StartsWith(instr, InstrCALL) THEN "CALL " ELSE "RST ") \o LabelCallAddr(callAddr)

\* mutant: the call frame is put on top of the frame of the new PC
HandleReverseDebugStackFwrdOnTop(stack, currentLine, nextLine) ==
    IF nextLine = NoLine THEN [stack |-> Undefined, err |-> NoError]
    ELSE IF stack = Undefined \/ Len(stack) = 0
    THEN [stack |-> stack, err |-> StackError(stack)]
    ELSE LET s1 == Tail(stack)
             top == Frame(nextLine.pc, nextLine.sp, "PC")
         IN  IF StartsWith(currentLine.instr, InstrRET)
             THEN IF Len(s1) = 0
                  THEN [stack |-> s1, err |-> AssertionError]
                  ELSE [stack |-> << top >> \o Tail(s1), err |-> NoError]
             ELSE IF StartsWith(currentLine.instr, InstrCALL)
                     \/ StartsWith(currentLine.instr, InstrRST)
             THEN IF currentLine.sp > nextLine.sp
                  THEN [stack |-> << Frame(currentLine.pc, currentLine.sp,
                                       CallName(currentLine.instr, nextLine.pc)),
                                     top >> \o s1,
                        err |-> NoError]
                  ELSE [stack |-> << top >> \o s1, err |-> NoError]
             ELSE [stack |-> << top >> \o s1, err |-> NoError]

\* handleReverseDebugStackFwrd that pops the top frame only, also for a RET
HandleReverseDebugStackFwrdOnePop(stack, currentLine, nextLine) ==
    IF nextLine = NoLine THEN [stack |-> Undefined, err |-> NoError]
    ELSE IF stack = Undefined \/ Len(stack) = 0
    THEN [stack |-> stack, err |-> StackError(stack)]
    ELSE LET s1 == Tail(stack)
             top == Frame(nextLine.pc, nextLine.sp, "PC")
         IN  IF (StartsWith(currentLine.instr, InstrCALL)
                 \/ StartsWith(currentLine.instr, InstrRST))
                /\ currentLine.sp > nextLine.sp
             THEN [stack |-> << top,
                                Frame(currentLine.pc, currentLine.sp,
                                  CallName(currentLine.instr, nextLine.pc)) >>
                             \o s1,
                   err |-> NoError]
             ELSE [stack |-> << top >> \o s1, err |-> NoError]

\* handleReverseDebugStackFwrd(currentLine, nextLine): the stack afterwards
\* and the error thrown, if any
HandleReverseDebugStackFwrd(stack, currentLine, nextLine) ==
    IF nextLine = NoLine THEN [stack |-> Undefined, err |-> NoError]
    ELSE IF stack = Undefined \/ Len(stack) = 0
    THEN [stack |-> stack, err |-> StackError(stack)]
    ELSE LET s1 == Tail(stack)
             top == Frame(nextLine.pc, nextLine.sp, "PC")
         IN  IF StartsWith(currentLine.instr, InstrRET)
             THEN IF Len(s1) = 0
                  THEN [stack |-> s1, err |-> AssertionError]
                  ELSE [stack |-> << top >> \o Tail(s1), err |-> NoError]
             ELSE IF StartsWith(currentLine.instr, InstrCALL)
                     \/ StartsWith(currentLine.instr, InstrRST)
             THEN IF currentLine.sp > nextLine.sp
                  THEN [stack |-> << top,
                                     Frame(currentLine.pc, currentLine.sp,
                                       CallName(currentLine.instr, nextLine.pc)) >>
                                  \o s1,
                        err |-> NoError]
                  ELSE [stack |-> << top >> \o s1, err |-> NoError]
             ELSE [stack |-> << top >> \o s1, err |-> NoError]

\* realStackTraceRequest(): the frame of the PC, then the callers
RealStack ==
    << Frame(liveRegs.pc, liveRegs.sp, "PC") >> \o realCallers

\* prepareReverseDbgStack() that takes the real stack also in step back mode
PreparedStackAlways ==
    RealStack

\* prepareReverseDbgStack(): the stack the handler works on
PreparedStack ==
    IF IsInStepBackMode THEN reverseDbgStack ELSE RealStack

\* stackTraceRequest() that always answers with the real stack
StackTraceRequestReal == [frames |-> RealStack, err |-> NoError]

\* stackTraceRequest() that always answers with the virtual stack
StackTraceRequestVirtual ==
    [frames |-> reverseDbgStack,
     err |-> IF reverseDbgStack = Undefined THEN AssertionError ELSE NoError]

\* stackTraceRequest(handler): the frames passed to the handler, and the
\* error thrown by assert(this.reverseDbgStack)
StackTraceRequest ==
    IF IsInStepBackMode
    THEN [frames |-> reverseDbgStack,
          err |-> IF reverseDbgStack = Undefined THEN AssertionError ELSE NoError]
    ELSE [frames |-> RealStack, err |-> NoError]

\* getLine(), or the cached registers at the live edge
CurrentLine ==
    IF IsInStepBackMode THEN log[logPos]
    ELSE [pc |-> liveRegs.pc, sp |-> liveRegs.sp, instr |-> << >>]

-----------------------------------------------------------------------------
(* ZesaruxEmulator: the state machine *)

\* emitRevDbgHistory(): the notification 'revDbgHistory' with the addresses
\* visited so far
EmitRevDbgHistory(addresses) == [event |-> "revDbgHistory", addresses |-> addresses]

\* the call of the handler of an operation
HandlerCalled == [event |-> "handler", addresses |-> << >>]

\* the end of an operation in step back mode that calls its handler first
ReverseDbgEventsHandlerFirst(addresses) ==
    << HandlerCalled, EmitRevDbgHistory(addresses) >>

\* the end of every operation in step back mode, after its try/catch:
\* this.emitRevDbgHistory(), then the handler
ReverseDbgEvents(addresses) == << EmitRevDbgHistory(addresses), HandlerCalled >>

\* the frames of the callers when the session starts
InitCallers(d) ==
    [i \in 1..d |-> Frame(36864, TopOfStack - 2 * (d - i) - 2, "CALL 9000h")]

\* the session starts: an empty log, the emulator stopped somewhere
InitZ ==
    /\ log = << >>
    /\ logPos = 0
    /\ \E d \in 0..MaxDepth :
          /\ realCallers = InitCallers(d)
          /\ \E pc \in PCS : liveRegs = [pc |-> pc, sp |-> TopOfStack - 2 * d]
    /\ revDbgHistory = << >>
    /\ reverseDbgStack = Undefined
    /\ zOp = "none"
    /\ zError = NoError
    /\ zEvents = << >>

\* the simulator's history store is not used by the emulator
HistIdle ==
    /\ history = << >>
    /\ historyIndex = -1
    /\ historyWriteIndex = -1
    /\ maxSize = 1
    /\ lastOp = "init"
    /\ lastLine = NONE
    /\ addrResult = NoAddrResult
    /\ preIndex = -1
    /\ pushCount = 0
    /\ plainOnly = TRUE
    /\ nBack = 0
    /\ nFwd = 0
    /\ overwritten = {}

\* The emulator executes one instruction (cpu-step): the line is written to
\* the transaction log with the registers before the instruction.
\* kind: the instruction and whether its condition was met; maxLines: the
\* lines the explored log holds at most.
CpuStepWithin(kind, target, maxLines) ==
    LET instr == CASE kind \in {"CALL", "CALLnt"} -> InstrCALL
                   [] kind = "RST" -> InstrRST
                   [] kind \in {"RET", "RETnt"} -> InstrRET
                   [] kind = "POP" -> InstrPOP
                   [] OTHER -> InstrNOP
        pc == liveRegs.pc
        sp == liveRegs.sp
    IN  /\ Len(log) < maxLines
        /\ log' = Append(log, [pc |-> pc, sp |-> sp, instr |-> instr])
        /\ CASE kind \in {"CALL", "RST"} ->
                  /\ liveRegs' = [pc |-> target, sp |-> sp - 2]
                  /\ realCallers' = << Frame(pc, sp - 2, CallName(instr, target)) >>
                                    \o realCallers
             [] kind = "RET" ->
                  /\ liveRegs' = [pc |-> target, sp |-> sp + 2]
                  /\ realCallers' = IF Len(realCallers) > 0 THEN Tail(realCallers)
                                    ELSE realCallers
             [] kind = "POP" ->
                  /\ liveRegs' = [pc |-> target, sp |-> sp + 2]
                  /\ realCallers' = IF Len(realCallers) > 0
                                       /\ Head(realCallers).sp = sp
                                    THEN Tail(realCallers)
                                    ELSE realCallers
             [] OTHER ->
                  /\ liveRegs' = [pc |-> target, sp |-> sp]
                  /\ realCallers' = realCallers

\* cpu-step while the log holds fewer than MaxLog lines
CpuStep(kind, target) == CpuStepWithin(kind, target, MaxLog)

CpuKinds == { "CALL", "CALLnt", "RST", "RET", "RETnt", "POP", "NOP" }

\* stepBack(handler) that drops the virtual stack at the end of the history
stepBackClearing ==
    LET stack0 == PreparedStack
        lastLn == CurrentLine
        p == PrevLine(Len(log), logPos)
        r == HandleReverseDebugStackBack(stack0, log[p.pos], lastLn)
    IN  /\ p.ok => Len(revDbgHistory) < MaxVisited
        /\ zOp' = "stepBack"
        /\ IF p.ok
           THEN /\ logPos' = p.pos
                /\ revDbgHistory' = Append(revDbgHistory, log[p.pos].pc)
                /\ reverseDbgStack' = r.stack
                /\ zError' = r.err
           ELSE /\ logPos' = p.pos
                /\ revDbgHistory' = revDbgHistory
                /\ reverseDbgStack' = Undefined
                /\ zError' = EndOfHistory
        /\ zEvents' = ReverseDbgEvents(revDbgHistory')
        /\ UNCHANGED <<log, liveRegs, realCallers, histVars, obsVars, eVars>>

\* stepBack(handler)
stepBack ==
    LET stack0 == PreparedStack
        lastLn == CurrentLine
        p == PrevLine(Len(log), logPos)
        r == HandleReverseDebugStackBack(stack0, log[p.pos], lastLn)
    IN  /\ p.ok => Len(revDbgHistory) < MaxVisited
        /\ zOp' = "stepBack"
        /\ IF p.ok
           THEN /\ logPos' = p.pos
                /\ revDbgHistory' = Append(revDbgHistory, log[p.pos].pc)
                /\ reverseDbgStack' = r.stack
                /\ zError' = r.err
           ELSE /\ logPos' = p.pos
                /\ revDbgHistory' = revDbgHistory
                /\ reverseDbgStack' = stack0
                /\ zError' = EndOfHistory
        /\ zEvents' = ReverseDbgEvents(revDbgHistory')
        /\ UNCHANGED <<log, liveRegs, realCallers, histVars, obsVars, eVars>>

\* the loop of reverseContinue(): steps back until the start of the log or
\* until an error is thrown
RECURSIVE ReverseLoop(_, _, _, _)
ReverseLoop(stack, pos, lastLn, hist) ==
    LET p == PrevLine(Len(log), pos)
        r == HandleReverseDebugStackBack(stack, log[p.pos], lastLn)
    IN  IF ~p.ok
        THEN [stack |-> stack, pos |-> pos, hist |-> hist, err |-> NoError]
        ELSE IF r.err # NoError
        THEN [stack |-> r.stack, pos |-> p.pos,
              hist |-> Append(hist, log[p.pos].pc), err |-> r.err]
        ELSE ReverseLoop(r.stack, p.pos, log[p.pos], Append(hist, log[p.pos].pc))

\* reverseContinue(handler)
reverseContinue ==
    LET r == ReverseLoop(PreparedStack, logPos, CurrentLine, revDbgHistory)
    IN  /\ Len(r.hist) <= MaxVisited
        /\ zOp' = "reverseContinue"
        /\ logPos' = r.pos
        /\ revDbgHistory' = r.hist
        /\ reverseDbgStack' = r.stack
        /\ zError' = IF r.err = NoError THEN EndOfHistory ELSE r.err
        /\ zEvents' = ReverseDbgEvents(revDbgHistory')
        /\ UNCHANGED <<log, liveRegs, realCallers, histVars, obsVars, eVars>>

\* revDbgNext(): the new position, the line (or NoLine) and the addresses
RevDbgNext(pos, hist) ==
    LET n == NextLine(Len(log), pos)
    IN  IF n.ok
        THEN IF Len(hist) > 0
             THEN [pos |-> n.pos, line |-> log[n.pos],
                   hist |-> SubSeq(hist, 1, Len(hist) - 1), err |-> NoError]
             ELSE [pos |-> n.pos, line |-> NoLine, hist |-> hist,
                   err |-> AssertionError]
        ELSE [pos |-> n.pos, line |-> NoLine, hist |-> hist, err |-> NoError]

\* stepInto(handler), in step back mode: one line forward in the log
StepIntoHistory ==
    LET n == RevDbgNext(logPos, revDbgHistory)
        r == HandleReverseDebugStackFwrd(reverseDbgStack, log[logPos], n.line)
    IN  /\ IsInStepBackMode
        /\ zOp' = "stepInto"
        /\ logPos' = n.pos
        /\ revDbgHistory' = n.hist
        /\ IF n.err # NoError
           THEN reverseDbgStack' = reverseDbgStack /\ zError' = n.err
           ELSE reverseDbgStack' = r.stack /\ zError' = r.err
        /\ zEvents' = ReverseDbgEvents(revDbgHistory')
        /\ UNCHANGED <<log, liveRegs, realCallers, histVars, obsVars, eVars>>

\* stepInto(handler), live: the virtual stack is cleared, one cpu-step
StepIntoLive ==
    /\ ~IsInStepBackMode
    /\ \E kind \in CpuKinds, target \in PCS : CpuStep(kind, target)
    /\ reverseDbgStack' = Undefined
    /\ zOp' = "cpu-step"
    /\ zError' = NoError
    /\ zEvents' = << HandlerCalled >>
    /\ UNCHANGED <<logPos, revDbgHistory, histVars, obsVars, eVars>>

\* stepInto(handler)
stepInto == StepIntoHistory \/ StepIntoLive

\* the loop of continue() that leaves after the first line, as if a
\* breakpoint were hit there
ForwardLoopOneLine(stack, pos, hist) ==
    LET n == RevDbgNext(pos, hist)
        r == HandleReverseDebugStackFwrd(stack, log[pos], n.line)
    IN  IF n.err # NoError
        THEN [stack |-> stack, pos |-> n.pos, hist |-> n.hist, err |-> n.err, steps |-> 1]
        ELSE [stack |-> r.stack, pos |-> n.pos, hist |-> n.hist, err |-> r.err, steps |-> 1]

\* the loop of continue(), in step back mode: forward to the end of the log;
\* steps counts the calls of revDbgNext()
RECURSIVE ForwardLoop(_, _, _)
ForwardLoop(stack, pos, hist) ==
    LET n == RevDbgNext(pos, hist)
        r == HandleReverseDebugStackFwrd(stack, log[pos], n.line)
    IN  IF n.err # NoError
        THEN [stack |-> stack, pos |-> n.pos, hist |-> n.hist, err |-> n.err, steps |-> 1]
        ELSE IF r.err # NoError \/ n.line = NoLine
        THEN [stack |-> r.stack, pos |-> n.pos, hist |-> n.hist, err |-> r.err, steps |-> 1]
        ELSE [ForwardLoop(r.stack, n.pos, n.hist) EXCEPT !.steps = @ + 1]

\* continue(handler), in step back mode
ContinueHistory ==
    LET r == ForwardLoop(reverseDbgStack, logPos, revDbgHistory)
    IN  /\ IsInStepBackMode
        /\ zOp' = "continue"
        /\ logPos' = r.pos
        /\ revDbgHistory' = r.hist
        /\ reverseDbgStack' = r.stack
        /\ zError' = r.err
        /\ zEvents' = ReverseDbgEvents(revDbgHistory')
        /\ UNCHANGED <<log, liveRegs, realCallers, histVars, obsVars, eVars>>

\* what getRegisters() of the transaction log does when the cursor has left
\* the log: parseSP gets no number (no error), or the call throws
LiveReadOutcomes == { NoError, TypeError }

\* the SP stepOver expects after the instruction of the line
ExpectedSP(line) ==
    IF StartsWith(line.instr, InstrPOP) THEN line.sp + 2 ELSE line.sp

\* the second SP stepOver accepts: a RET may have been taken
ExpectedSP2(line) ==
    IF StartsWith(line.instr, InstrRET) THEN ExpectedSP(line) + 2
    ELSE ExpectedSP(line)

\* the loop of stepOver(), in step back mode: forward to the next line with
\* an expected SP, or to the end of the log
RECURSIVE StepOverLoop(_, _, _, _, _, _)
StepOverLoop(stack, pos, hist, expectedSP, expectedSP2, liveRead) ==
    LET n == RevDbgNext(pos, hist)
        r == HandleReverseDebugStackFwrd(stack, log[pos], n.line)
    IN  IF n.err # NoError
        THEN [stack |-> stack, pos |-> n.pos, hist |-> n.hist, err |-> n.err, steps |-> 1]
        ELSE IF r.err # NoError
        THEN [stack |-> r.stack, pos |-> n.pos, hist |-> n.hist, err |-> r.err, steps |-> 1]
        ELSE IF n.line = NoLine
        THEN [stack |-> r.stack, pos |-> n.pos, hist |-> n.hist, err |-> liveRead, steps |-> 1]
        ELSE IF expectedSP = n.line.sp \/ expectedSP2 = n.line.sp
        THEN [stack |-> r.stack, pos |-> n.pos, hist |-> n.hist, err |-> NoError, steps |-> 1]
        ELSE [StepOverLoop(r.stack, n.pos, n.hist, expectedSP, expectedSP2, liveRead)
              EXCEPT !.steps = @ + 1]

\* stepOver(handler), in step back mode
StepOverHistory ==
    /\ IsInStepBackMode
    /\ \E liveRead \in LiveReadOutcomes :
          LET line == log[logPos]
              r == StepOverLoop(reverseDbgStack, logPos, revDbgHistory,
                                ExpectedSP(line), ExpectedSP2(line), liveRead)
          IN  /\ zOp' = "stepOver"
              /\ logPos' = r.pos
              /\ revDbgHistory' = r.hist
              /\ reverseDbgStack' = r.stack
              /\ zError' = r.err
    /\ zEvents' = ReverseDbgEvents(revDbgHistory')
    /\ UNCHANGED <<log, liveRegs, realCallers, histVars, obsVars, eVars>>

\* the loop of stepOut() that leaves after a RET with an SP not above the
\* SP of the start
RECURSIVE StepOutLoopLowerEqual(_, _, _, _)
StepOutLoopLowerEqual(stack, pos, hist, startSP) ==
    LET n == RevDbgNext(pos, hist)
        r == HandleReverseDebugStackFwrd(stack, log[pos], n.line)
    IN  IF n.err # NoError
        THEN [stack |-> stack, pos |-> n.pos, hist |-> n.hist, err |-> n.err, steps |-> 1]
        ELSE IF r.err # NoError \/ n.line = NoLine
        THEN [stack |-> r.stack, pos |-> n.pos, hist |-> n.hist, err |-> r.err, steps |-> 1]
        ELSE IF StartsWith(log[pos].instr, InstrRET) /\ log[pos].sp <= startSP
        THEN [stack |-> r.stack, pos |-> n.pos, hist |-> n.hist, err |-> NoError, steps |-> 1]
        ELSE [StepOutLoopLowerEqual(r.stack, n.pos, n.hist, startSP) EXCEPT !.steps = @ + 1]

\* the loop of stepOut(), in step back mode: forward until a RET with an SP
\* not below the SP of the start was passed, or to the end of the log
RECURSIVE StepOutLoop(_, _, _, _)
StepOutLoop(stack, pos, hist, startSP) ==
    LET n == RevDbgNext(pos, hist)
        r == HandleReverseDebugStackFwrd(stack, log[pos], n.line)
    IN  IF n.err # NoError
        THEN [stack |-> stack, pos |-> n.pos, hist |-> n.hist, err |-> n.err, steps |-> 1]
        ELSE IF r.err # NoError \/ n.line = NoLine
        THEN [stack |-> r.stack, pos |-> n.pos, hist |-> n.hist, err |-> r.err, steps |-> 1]
        ELSE IF StartsWith(log[pos].instr, InstrRET) /\ log[pos].sp >= startSP
        THEN [stack |-> r.stack, pos |-> n.pos, hist |-> n.hist, err |-> NoError, steps |-> 1]
        ELSE [StepOutLoop(r.stack, n.pos, n.hist, startSP) EXCEPT !.steps = @ + 1]

\* stepOut(handler), in step back mode
StepOutHistory ==
    LET r == StepOutLoop(reverseDbgStack, logPos, revDbgHistory, log[logPos].sp)
    IN  /\ IsInStepBackMode
        /\ zOp' = "stepOut"
        /\ logPos' = r.pos
        /\ revDbgHistory' = r.hist
        /\ reverseDbgStack' = r.stack
        /\ zError' = r.err
        /\ zEvents' = ReverseDbgEvents(revDbgHistory')
        /\ UNCHANGED <<log, liveRegs, realCallers, histVars, obsVars, eVars>>

NextZ ==
    \/ stepBack
    \/ reverseContinue
    \/ StepIntoHistory
    \/ StepIntoLive
    \/ ContinueHistory

\* the emulator part is not used by the simulator's history store
ZIdle ==
    /\ log = << >>
    /\ logPos = 0
    /\ liveRegs = [pc |-> 0, sp |-> 0]
    /\ realCallers = << >>
    /\ zOp = "none"
    /\ zError = "none"
    /\ zEvents = << >>

-----------------------------------------------------------------------------
(* ZesaruxEmulator.findCallOrRst *)

\* the byte values that are combined with every value 0..255 of one byte:
\* NOP, LD A,n, CALL NZ, RST 0, CALL, RST 38h
ByteSample == { 0, 62, 196, 199, 205, 255 }

\* a & b of JavaScript, for non negative numbers
RECURSIVE BitAnd(_, _)
BitAnd(a, b) ==
    IF a = 0 \/ b = 0 THEN 0
    ELSE (a % 2) * (b % 2) + 2 * BitAnd(a \div 2, b \div 2)

\* the two hex digits of a byte, as characters
HexChars(byte) == << HexDigits[(byte \div 16) + 1], HexDigits[(byte % 16) + 1] >>

\* the answer of 'read-memory addr-3 3': the bytes as hex digits
ReadMemory(mem) == HexChars(mem[1]) \o HexChars(mem[2]) \o HexChars(mem[3])

\* the value of a hex digit
HexValue(c) == CHOOSE v \in 0..15 : HexDigits[v + 1] = c

\* parseInt(str, 16)
RECURSIVE ParseInt16(_)
ParseInt16(str) ==
    IF Len(str) = 0 THEN 0
    ELSE 16 * ParseInt16(SubSeq(str, 1, Len(str) - 1)) + HexValue(str[Len(str)])

\* what findCallOrRst passes to its handler: (k, addr)
NoCallOrRst == [k |-> -1, addr |-> -1]

\* the while loop of findCallOrRst over opc12
RECURSIVE RstLoop(_, _)
RstLoop(opc12, k) ==
    IF opc12 = 0 THEN [opc12 |-> 0, k |-> k]
    ELSE IF BitAnd(opc12, 199) = 199 THEN [opc12 |-> opc12, k |-> k]
    ELSE RstLoop(opc12 \div 256, k + 1)

\* findCallOrRst with the RST test made first
FindCallOrRstRstFirst(data) ==
    LET opc3 == ParseInt16(SubSeq(data, 1, 2))
        r == RstLoop(ParseInt16(SubSeq(data, 3, 6)), 1)
        callAddr == ParseInt16(SubSeq(data, 3, 6))
    IN  IF r.opc12 # 0
        THEN [k |-> r.k, addr |-> BitAnd(r.opc12, 56)]
        ELSE IF opc3 = 205 \/ BitAnd(opc3, 199) = 196
        THEN [k |-> 3, addr |-> (callAddr \div 256) + (callAddr % 256) * 256]
        ELSE [k |-> 0, addr |-> 0]

\* findCallOrRst(addr, handler), from the answer of read-memory
FindCallOrRst(data) ==
    LET opc3 == ParseInt16(SubSeq(data, 1, 2))
        callAddr == ParseInt16(SubSeq(data, 3, 6))
        r == RstLoop(ParseInt16(SubSeq(data, 3, 6)), 1)
    IN  IF opc3 = 205 \/ BitAnd(opc3, 199) = 196
        THEN [k |-> 3, addr |-> (callAddr \div 256) + (callAddr % 256) * 256]
        ELSE IF r.opc12 # 0
        THEN [k |-> r.k, addr |-> BitAnd(r.opc12, 56)]
        ELSE [k |-> 0, addr |-> 0]

\* the memory in front of the return address: each byte takes every value
\* while the other two are taken from ByteSample
InitF ==
    /\ memory \in ((0..255) \X ByteSample \X ByteSample)
                  \cup (ByteSample \X (0..255) \X ByteSample)
                  \cup (ByteSample \X ByteSample \X (0..255))
    /\ callOrRst = NoCallOrRst

\* findCallOrRst(addr, handler)
findCallOrRst ==
    /\ callOrRst' = FindCallOrRst(ReadMemory(memory))
    /\ UNCHANGED <<xVars, memory, bpVars, wpVars, histVars, revDbgHistory, reverseDbgStack,
                   obsVars, zVars>>

NextF == findCallOrRst

\* findCallOrRst is not used
FIdle ==
    /\ memory = << 0, 0, 0 >>
    /\ callOrRst = NoCallOrRst

-----------------------------------------------------------------------------
(* ZesaruxEmulator: breakpoints *)

\* no breakpoint operation was made
NoBpOp == [op |-> "none", bpId |-> -1, warning |-> FALSE, verified |-> FALSE,
           error |-> NoError]

\* Zesarux.MAX_ZESARUX_BREAKPOINTS: max count of breakpoints
MAX_ZESARUX_BREAKPOINTS == 100
\* ZesaruxEmulator.MAX_USED_BREAKPOINTS
MAX_USED_BREAKPOINTS == MAX_ZESARUX_BREAKPOINTS - 1
\* ZesaruxEmulator.STEP_BREAKPOINT_ID: the breakpoint used for step-over
STEP_BREAKPOINT_ID == 100
\* largest number of removeBreakpoint calls that is explored
MaxRemoved == 1

\* the address of the breakpoints that are set (0x8000)
BpAddress == 32768

\* the breakpoints passed to setBreakpoint: plain, with a condition (as a
\* sequence of tokens), with a log message
BpInputs ==
    { [address |-> BpAddress, condition |-> << >>, log |-> ""],
      [address |-> BpAddress, condition |-> << "A", "==", "1" >>, log |-> ""],
      [address |-> BpAddress, condition |-> << >>, log |-> "msg"] }

\* what convertCondition returns for a condition it cannot convert
UndefinedCondition == << "undefined" >>

\* convertCondition(condition): the C-style operators are replaced
ConvertCondition(condition) ==
    [i \in 1..Len(condition) |->
        CASE condition[i] = "==" -> "="
          [] condition[i] = "!=" -> "<>"
          [] condition[i] = "&&" -> " AND "
          [] condition[i] = "||" -> " OR "
          [] condition[i] = "!" -> "NOT"
          [] OTHER -> condition[i]]

\* initBreakpoints that also puts the last id of ZEsarUX into the pool
InitBreakpointsAll ==
    [i \in 1..MAX_ZESARUX_BREAKPOINTS |-> i]

\* initBreakpoints(): the pool of free ids afterwards
InitBreakpoints ==
    [i \in 1..MAX_USED_BREAKPOINTS |-> i]

\* setBreakpoint that adds the breakpoint also when no id is free
SetBreakpointAdding(free, bps, bp) ==
    IF bp.log # ""
    THEN [free |-> free, breakpoints |-> bps, bpId |-> 0, address |-> -1,
          warning |-> TRUE]
    ELSE IF ConvertCondition(bp.condition) = UndefinedCondition
    THEN [free |-> free, breakpoints |-> bps, bpId |-> 0, address |-> -1,
          warning |-> TRUE]
    ELSE IF Len(free) = 0
    THEN [free |-> free,
          breakpoints |-> Append(bps, [bpId |-> 0, address |-> bp.address]),
          bpId |-> 0, address |-> bp.address, warning |-> FALSE]
    ELSE [free |-> Tail(free),
          breakpoints |-> Append(bps, [bpId |-> Head(free), address |-> bp.address]),
          bpId |-> Head(free), address |-> bp.address, warning |-> FALSE]

\* setBreakpoint(bp): the pool and the list afterwards, the returned id, the
\* address left in bp, whether a warning was emitted
SetBreakpoint(free, bps, bp) ==
    IF bp.log # ""
    THEN [free |-> free, breakpoints |-> bps, bpId |-> 0, address |-> -1,
          warning |-> TRUE]
    ELSE IF ConvertCondition(bp.condition) = UndefinedCondition
    THEN [free |-> free, breakpoints |-> bps, bpId |-> 0, address |-> -1,
          warning |-> TRUE]
    ELSE IF Len(free) = 0
    THEN [free |-> free, breakpoints |-> bps, bpId |-> 0, address |-> bp.address,
          warning |-> FALSE]
    ELSE [free |-> Tail(free),
          breakpoints |-> Append(bps, [bpId |-> Head(free), address |-> bp.address]),
          bpId |-> Head(free), address |-> bp.address, warning |-> FALSE]

\* the caller of setBreakpoint marks a breakpoint that got no id as
\* unverified (address -1)
MarkUnverified(bpId, address) == IF bpId = 0 THEN -1 ELSE address

\* setBreakPointsRequest: the breakpoint is reported as verified
Verified(address) == address >= 0

\* Array.splice(index, 1), index counted from 0
Splice(seq, index) ==
    SubSeq(seq, 1, index) \o SubSeq(seq, index + 2, Len(seq))

\* removeBreakpoint(bp), bp found at JS index 'index' of the list (-1: not
\* in the list): the pool and the list afterwards, the error thrown
RemoveBreakpoint(free, bps, index) ==
    IF index = -1
    THEN [free |-> free, breakpoints |-> bps, err |-> AssertionError]
    ELSE [free |-> Append(free, index), breakpoints |-> Splice(bps, index),
          err |-> NoError]

\* the emulator was constructed: no id is free, no breakpoint is set
InitBp ==
    /\ freeBreakpointIds = << >>
    /\ breakpoints = << >>
    /\ bpLast = NoBpOp
    /\ nRemoved = 0

\* initBreakpoints(), called once when the socket is connected
initBreakpoints ==
    /\ bpLast.op = "none"
    /\ freeBreakpointIds' = InitBreakpoints
    /\ bpLast' = [NoBpOp EXCEPT !.op = "initBreakpoints"]
    /\ UNCHANGED <<xVars, breakpoints, nRemoved, fVars, wpVars, histVars, revDbgHistory,
                   reverseDbgStack, obsVars, zVars>>

\* setBreakpoint(bp), and what is reported for the breakpoint
setBreakpoint(bp) ==
    LET r == SetBreakpoint(freeBreakpointIds, breakpoints, bp)
    IN  /\ bpLast.op # "none"
        /\ freeBreakpointIds' = r.free
        /\ breakpoints' = r.breakpoints
        /\ bpLast' = [op |-> "setBreakpoint", bpId |-> r.bpId,
                      warning |-> r.warning,
                      verified |-> Verified(MarkUnverified(r.bpId, r.address)),
                      error |-> NoError]
        /\ UNCHANGED <<xVars, nRemoved, fVars, wpVars, histVars, revDbgHistory,
                       reverseDbgStack, obsVars, zVars>>

\* the JS indices passed to removeBreakpoint: the first and the last
\* breakpoint of the list, and one that is not in the list
RemoveChoices == { -1, 0, Len(breakpoints) - 1 }

\* removeBreakpoint(bp)
removeBreakpoint(index) ==
    LET r == RemoveBreakpoint(freeBreakpointIds, breakpoints, index)
    IN  /\ bpLast.op # "none"
        /\ nRemoved < MaxRemoved
        /\ index < Len(breakpoints)
        /\ nRemoved' = nRemoved + 1
        /\ freeBreakpointIds' = r.free
        /\ breakpoints' = r.breakpoints
        /\ bpLast' = [NoBpOp EXCEPT !.op = "removeBreakpoint", !.error = r.err]
        /\ UNCHANGED <<xVars, fVars, wpVars, histVars, revDbgHistory, reverseDbgStack,
                       obsVars, zVars>>

NextBp ==
    \/ initBreakpoints
    \/ \E bp \in BpInputs : setBreakpoint(bp)
    \/ \E index \in RemoveChoices : removeBreakpoint(index)

\* the breakpoints are not used
BpIdle ==
    /\ freeBreakpointIds = << >>
    /\ breakpoints = << >>
    /\ bpLast = NoBpOp
    /\ nRemoved = 0

-----------------------------------------------------------------------------
(* ZesaruxEmulator.setWatchpoints *)

\* the completion handler was not called
NotHandled == [called |-> FALSE, wps |-> << >>]

\* largest number of watchpoints in the list passed to setWatchpoints
MaxWatchpoints == 2

\* the watchpoints passed to setWatchpoints: at 0x4000, 1 or 2 bytes, read,
\* write or both, without and with a condition
WpInputs ==
    [address : { 16384 }, size : { 1, 2 }, access : { << "r" >>, << "w" >>, << "r", "w" >> },
     conditions : { "", "A==1" }]

\* the lists of at most n watchpoints
RECURSIVE WpLists(_)
WpLists(n) ==
    IF n = 0 THEN { << >> }
    ELSE WpLists(n - 1)
         \cup { Append(l, wp) : l \in { x \in WpLists(n - 1) : Len(x) = n - 1 },
                                wp \in WpInputs }

\* access.indexOf(c) >= 0
Contains(access, c) == \E i \in 1..Len(access) : access[i] = c

\* the type of a memory breakpoint: bit 0 for read, bit 1 for write
AccessType(access) ==
    (IF Contains(access, "r") THEN 1 ELSE 0) + (IF Contains(access, "w") THEN 2 ELSE 0)

\* Number.toString(16)
HexDigitsLower == << "0", "1", "2", "3", "4", "5", "6", "7",
                     "8", "9", "a", "b", "c", "d", "e", "f" >>

RECURSIVE ToString16(_)
ToString16(value) ==
    IF value < 16 THEN HexDigitsLower[value + 1]
    ELSE ToString16(value \div 16) \o HexDigitsLower[(value % 16) + 1]

\* 'set-membreakpoint ' + addr.toString(16) + 'h ' + type + ' ' + size
SetMemBreakpoint(wp) ==
    [cmd |-> "set-membreakpoint", addr |-> ToString16(wp.address) \o "h",
     type |-> AccessType(wp.access), size |-> wp.size]

\* the commands setWatchpoints sends for the list: none for a watchpoint
\* with a condition
RECURSIVE WatchpointCommands(_)
WatchpointCommands(watchPoints) ==
    IF Len(watchPoints) = 0 THEN << >>
    ELSE LET wp == Head(watchPoints)
         IN  IF wp.conditions # ""
             THEN WatchpointCommands(Tail(watchPoints))
             ELSE << SetMemBreakpoint(wp) >> \o WatchpointCommands(Tail(watchPoints))

\* the warnings setWatchpoints emits for the list: the branch for a
\* watchpoint with a condition is empty
WatchpointWarnings(watchPoints) == << >>

\* the emulator was constructed
InitWp ==
    /\ wpSent = << >>
    /\ wpWarnings = << >>
    /\ wpHandled = NotHandled

\* setWatchpoints(watchPoints, handler)
setWatchpoints(watchPoints, withHandler) ==
    /\ wpSent' = WatchpointCommands(watchPoints)
    /\ wpWarnings' = WatchpointWarnings(watchPoints)
    /\ wpHandled' = IF withHandler THEN [called |-> TRUE, wps |-> watchPoints]
                    ELSE NotHandled
    /\ UNCHANGED <<xVars, fVars, bpVars, histVars, revDbgHistory, reverseDbgStack, obsVars,
                   zVars>>

NextWp ==
    \E watchPoints \in WpLists(MaxWatchpoints), withHandler \in BOOLEAN :
        setWatchpoints(watchPoints, withHandler)

\* setWatchpoints is not used
WpIdle ==
    /\ wpSent = << >>
    /\ wpWarnings = << >>
    /\ wpHandled = NotHandled

-----------------------------------------------------------------------------
(* DebugSessionClass: the requests that start a command at the remote *)

\* largest number of requests that is explored
MaxRequests == 3

\* the commands whose request calls serializer.endExec() right after it
\* started the command
ReleasedAtOnce == { "continue", "reverseContinue" }

\* the commands whose request calls serializer.endExec() when the command
\* has completed
ReleasedOnCompletion == { "stepInto", "stepBack" }

\* the serializer runs the queued functions from the first one on, until one
\* of them does not call endExec() before it returns
RECURSIVE RunQueue(_, _)
RunQueue(queue, out) ==
    IF Len(queue) = 0 THEN [queue |-> queue, outstanding |-> out]
    ELSE IF Head(queue) \in ReleasedAtOnce
    THEN RunQueue(Tail(queue), Append(out, Head(queue)))
    ELSE [queue |-> queue, outstanding |-> Append(out, Head(queue))]

\* serializer.exec(func): func is queued; it runs now if nothing else is
\* queued
Exec(queue, out, cmd) ==
    IF Len(queue) = 0 THEN RunQueue(<< cmd >>, out)
    ELSE [queue |-> Append(queue, cmd), outstanding |-> out]

\* serializer.endExec(): the executing function is done, the next one runs
EndExec(queue, out) == RunQueue(Tail(queue), out)

\* the session starts: nothing is queued, nothing runs at the remote
InitS ==
    /\ serQueue = << >>
    /\ outstanding = << >>
    /\ nRequests = 0

\* a request whose body is passed to serializer.exec
SerializedRequest(cmd) ==
    LET r == Exec(serQueue, outstanding, cmd)
    IN  /\ nRequests < MaxRequests
        /\ nRequests' = nRequests + 1
        /\ serQueue' = r.queue
        /\ outstanding' = r.outstanding
        /\ UNCHANGED <<histVars, revDbgHistory, reverseDbgStack, obsVars, zVars,
                       fVars, bpVars, wpVars, mVars, yVars>>

\* a request that starts its command without the serializer
DirectRequest(cmd) ==
    /\ nRequests < MaxRequests
    /\ nRequests' = nRequests + 1
    /\ outstanding' = Append(outstanding, cmd)
    /\ UNCHANGED <<serQueue, histVars, revDbgHistory, reverseDbgStack, obsVars,
                   zVars, fVars, bpVars, wpVars, mVars, yVars>>

continueRequest == SerializedRequest("continue")

reverseContinueRequest == SerializedRequest("reverseContinue")

nextRequest == DirectRequest("stepOver")

stepInRequest == SerializedRequest("stepInto")

stepOutRequest == DirectRequest("stepOut")

stepBackRequest == SerializedRequest("stepBack")

\* the promise of the i-th outstanding command is resolved: the .then() part
\* of its request runs
CommandCompleted(i) ==
    LET cmd == outstanding[i]
        rest == SubSeq(outstanding, 1, i - 1)
                    \o SubSeq(outstanding, i + 1, Len(outstanding))
        r == IF cmd \in ReleasedOnCompletion THEN EndExec(serQueue, rest)
             ELSE [queue |-> serQueue, outstanding |-> rest]
    IN  /\ serQueue' = r.queue
        /\ outstanding' = r.outstanding
        /\ UNCHANGED <<nRequests, histVars, revDbgHistory, reverseDbgStack,
                       obsVars, zVars, fVars, bpVars, wpVars, mVars, yVars>>

NextS ==
    \/ continueRequest
    \/ reverseContinueRequest
    \/ nextRequest
    \/ stepInRequest
    \/ stepOutRequest
    \/ stepBackRequest
    \/ \E i \in 1..Len(outstanding) : CommandCompleted(i)

\* the session part is not used
SIdle == InitS

-----------------------------------------------------------------------------
(* The memory models: getMemoryBanks and the long address *)

\* a slot assignment passed to the memory model: the bank of every slot, or
\* undefined
UndefinedSlots == [defined |-> FALSE, banks |-> << >>]

SlotsOf(banks) == [defined |-> TRUE, banks |-> banks]

\* {start, end, name} of the interface MemoryBank
MemoryBank(start, end, name) == [start |-> start, end |-> end, name |-> name]

\* the banks that are assigned to slots in the explored assignments
BankSample == { 0, 5, 254 }

\* the number of slots of the memory model (the argument of super())
SlotCount(variant) ==
    CASE variant \in { "ZX16", "ZX48", "ZX128" } -> 4
      [] variant = "ZXNEXT" -> 8
      [] OTHER -> customMemory.slotCount.num \div customMemory.slotCount.den

\* this.bankSize = 0x10000/slotCount
BankSize(variant) == 65536 \div SlotCount(variant)

\* the memoryBanks passed to the constructor of MemoryModel by Zx16MemoryModel
Zx16MemoryBanks ==
    << MemoryBank(0, 16383, << "ROM" >>), MemoryBank(16384, 32767, << "RAM" >>),
       MemoryBank(32768, 65535, << "N/A" >>) >>

\* the memoryBanks passed to the constructor of MemoryModel by Zx48MemoryModel
Zx48MemoryBanks ==
    << MemoryBank(0, 16383, << "ROM" >>), MemoryBank(16384, 65535, << "RAM" >>) >>

\* the name of the bank in slot i (from 0) of the paged memory models
BankName(variant, bank, i) ==
    CASE variant = "ZX128" ->
            IF i = 0 THEN << "ROM", bank % 2 >> ELSE << "BANK", bank >>
      [] variant = "ZXNEXT" ->
            IF bank >= 254 THEN << "ROM" >> ELSE << "BANK", bank >>
      [] OTHER ->
            IF customMemory.notPopulatedBank.num
                   = bank * customMemory.notPopulatedBank.den
            THEN << "N/A" >> ELSE << "BANK", bank >>

\* slots.map((bank, i) => {start, end, name}) with end one too far
SlotsMapOverlapping(variant, banks) ==
    [i \in 1..Len(banks) |->
        MemoryBank((i - 1) * BankSize(variant),
                   (i - 1) * BankSize(variant) + BankSize(variant),
                   BankName(variant, banks[i], i - 1))]

\* slots.map((bank, i) => {start, end, name})
SlotsMap(variant, banks) ==
    [i \in 1..Len(banks) |->
        MemoryBank((i - 1) * BankSize(variant),
                   (i - 1) * BankSize(variant) + BankSize(variant) - 1,
                   BankName(variant, banks[i], i - 1))]

\* SimulatedMemory.slots of a custom memory: one bank for every slot
OwnerSlots == [i \in 1..SlotCount("CUSTOM") |-> i - 1]

\* getMemoryBanks(slots) of the memory model
GetMemoryBanks(variant, slots) ==
    CASE variant = "ZX16" -> Zx16MemoryBanks
      [] variant = "ZX48" -> Zx48MemoryBanks
      [] variant \in { "ZX128", "ZXNEXT" } ->
            IF slots.defined THEN SlotsMap(variant, slots.banks) ELSE << >>
      [] OTHER ->
            SlotsMap(variant, IF slots.defined THEN slots.banks ELSE OwnerSlots)

\* the first function passed to Z80Registers.setSlotsAndBanks by init():
\* address>>>14 (or 13) is the slot, the result is address+(bank<<16)
LongAddress(variant, address, banks) ==
    LET slotNr == address \div BankSize(variant)
        bank == banks[slotNr + 1] + 1
    IN  address + bank * 65536

\* the second function passed to Z80Registers.setSlotsAndBanks by init()
SlotIndex(variant, addr) == (addr \div BankSize(variant)) % SlotCount(variant)

-----------------------------------------------------------------------------
(* CustomMemory: the constructor *)

\* largest number of declared slots of a custom memory that is explored
MaxSlots == 2

\* the quotient num/den of two numbers, which JavaScript computes as a float
Q(num, den) == [num |-> num, den |-> den]

IsInteger(q) == q.den # 0 /\ q.num % (IF q.den < 0 THEN -q.den ELSE q.den) = 0

IsNegative(q) == (q.num < 0 /\ q.den > 0) \/ (q.num > 0 /\ q.den < 0)

\* the messages of the failed assertions
SizeError == "size not multiple of 1K"
RangeError == "Slot out of 16-bit range"
OrderError == "overlapping or out-of order"
SlotCountError == "'slots' size should match 'slotCount'"
BankIndexError == "bank index out of range"
GridError == "no slot grid"

\* the range limits of the declared slots that are explored: 0, 0x4000,
\* 0x8000 and 0x3FFF, 0x9FFF, 0xFFFF
Begins == { 0, 16384, 32768 }
Ends == { 16383, 40959, 65535 }

\* the declared slots (ZSimCustomMemorySlot), range and banked.count: all
\* ranges with these limits, also those with the end before the begin; a
\* size of 512 bytes (0x4000-0x41FF); a range that ends at 0x10FFF; two
\* banked slots
SlotDecls ==
    { [begin |-> b, end |-> e, count |-> 1] : b \in Begins, e \in Ends }
        \cup { [begin |-> 16384, end |-> 16895, count |-> 1],
               [begin |-> 32768, end |-> 69631, count |-> 1],
               [begin |-> 16384, end |-> 40959, count |-> 2],
               [begin |-> 32768, end |-> 65535, count |-> 2] }

\* the lists of n declared slots
RECURSIVE SlotLists(_)
SlotLists(n) ==
    IF n = 0 THEN { << >> }
    ELSE { Append(l, d) : l \in SlotLists(n - 1), d \in SlotDecls }

\* an entry of SlotInfo[]
SlotInfo(begin, end, populated, bankCount) ==
    [begin |-> begin, end |-> end, size |-> end - begin + 1,
     populated |-> populated, bankCount |-> bankCount]

\* memModel.map(slot => ...)
MappedSlots(mm) ==
    [i \in 1..Len(mm) |-> SlotInfo(mm[i].begin, mm[i].end, TRUE, mm[i].count)]

\* the not populated slot pushed after slot i, if there is a gap behind it
Filler(slots, i) ==
    IF i < Len(slots)
    THEN IF slots[i].end + 1 < slots[i + 1].begin
         THEN << SlotInfo(slots[i].end + 1, slots[i + 1].begin - 1, FALSE, 1) >>
         ELSE << >>
    ELSE IF slots[i].end < 65535
         THEN << SlotInfo(slots[i].end + 1, 65535, FALSE, 1) >>
         ELSE << >>

\* slots.reduce(...) that does not compare a slot with its neighbours
RECURSIVE CheckAndFillNoOrder(_, _)
CheckAndFillNoOrder(slots, i) ==
    IF i > Len(slots) THEN [err |-> NoError, list |-> << >>]
    ELSE LET slot == slots[i]
             rest == CheckAndFillNoOrder(slots, i + 1)
         IN  IF slot.size % 1024 # 0 THEN [err |-> SizeError, list |-> << >>]
             ELSE IF ~(slot.begin >= 0 /\ slot.end < 65536)
             THEN [err |-> RangeError, list |-> << >>]
             ELSE IF rest.err # NoError THEN rest
             ELSE [err |-> NoError,
                   list |-> << slot >> \o Filler(slots, i) \o rest.list]

\* slots.reduce(...): "Check overlapping and fill the gaps", from the i-th
\* slot on; the first failed assertion ends the constructor
RECURSIVE CheckAndFill(_, _)
CheckAndFill(slots, i) ==
    IF i > Len(slots) THEN [err |-> NoError, list |-> << >>]
    ELSE LET slot == slots[i]
             rest == CheckAndFill(slots, i + 1)
         IN  IF slot.size % 1024 # 0 THEN [err |-> SizeError, list |-> << >>]
             ELSE IF ~(slot.begin >= 0 /\ slot.end < 65536)
             THEN [err |-> RangeError, list |-> << >>]
             ELSE IF i > 1 /\ ~(slot.begin > slots[i - 1].end)
             THEN [err |-> OrderError, list |-> << >>]
             ELSE IF i < Len(slots) /\ ~(slot.end < slots[i + 1].begin)
             THEN [err |-> OrderError, list |-> << >>]
             ELSE IF rest.err # NoError THEN rest
             ELSE [err |-> NoError,
                   list |-> << slot >> \o Filler(slots, i) \o rest.list]

\* Math.min(...slots.map(slot => slot.size))
RECURSIVE MinSize(_)
MinSize(list) ==
    IF Len(list) = 1 THEN list[1].size
    ELSE LET m == MinSize(Tail(list))
         IN  IF list[1].size < m THEN list[1].size ELSE m

\* slot.sizeInPages = slot.size / slotSize; slot.bankCount *= slot.sizeInPages
Normalized(list, slotSize) ==
    [i \in 1..Len(list) |->
        [begin |-> list[i].begin, end |-> list[i].end, size |-> list[i].size,
         populated |-> list[i].populated,
         sizeInPages |-> Q(list[i].size, slotSize),
         bankCount |-> Q(list[i].bankCount * list[i].size, slotSize)]]

\* "Allocated non-populated bank": the number of banks and the bank of the
\* not populated slots, as quotients with the denominator slotSize
RECURSIVE AllocateBanks(_, _, _, _)
AllocateBanks(list, i, bankCount, notPopulatedBank) ==
    IF i > Len(list)
    THEN [bankCount |-> bankCount, notPopulatedBank |-> notPopulatedBank]
    ELSE IF list[i].populated
    THEN AllocateBanks(list, i + 1,
                       Q(bankCount.num + list[i].bankCount.num, bankCount.den),
                       notPopulatedBank)
    ELSE IF IsNegative(notPopulatedBank)
    THEN AllocateBanks(list, i + 1, Q(bankCount.num + bankCount.den, bankCount.den),
                       bankCount)
    ELSE AllocateBanks(list, i + 1, bankCount, notPopulatedBank)

\* no memory object: the constructor threw the error
NoMemory(err) ==
    [ok |-> FALSE, err |-> err, slots |-> << >>, slotSize |-> 0,
     slotCount |-> Q(0, 1), bankCount |-> Q(0, 1), notPopulatedBank |-> Q(-1, 1)]

IsPositive(q) == (q.num > 0 /\ q.den > 0) \/ (q.num < 0 /\ q.den < 0)

\* SimulatedMemory.init(slotCount, bankCount): a grid of slotCount slots and
\* bankCount banks can be built
InitAccepts(slotCount, bankCount) ==
    /\ IsInteger(slotCount) /\ IsPositive(slotCount)
    /\ IsInteger(bankCount) /\ IsPositive(bankCount)

\* new CustomMemory(memModel), memModel a list of declared slots
CustomMemoryOfList(mm) ==
    LET r == CheckAndFill(MappedSlots(mm), 1)
        slotSize == MinSize(r.list)
        slots == Normalized(r.list, slotSize)
        a == AllocateBanks(slots, 1, Q(0, slotSize), Q(-1, 1))
    IN  IF r.err # NoError THEN NoMemory(r.err)
        ELSE IF ~InitAccepts(Q(65536, slotSize), a.bankCount)
        THEN NoMemory(GridError)
        ELSE [ok |-> TRUE, err |-> NoError, slots |-> slots, slotSize |-> slotSize,
              slotCount |-> Q(65536, slotSize), bankCount |-> a.bankCount,
              notPopulatedBank |-> a.notPopulatedBank]

\* the slot tables (memModel.slots) that are explored: a bank number, or
\* something that is not a number for a not populated slot
TableEntries ==
    { [isNumber |-> TRUE, bank |-> b] : b \in { -1, 0, 1, 2 } }
        \cup { [isNumber |-> FALSE, bank |-> 0] }

RECURSIVE TableLists(_)
TableLists(n) ==
    IF n = 0 THEN { << >> }
    ELSE { Append(l, d) : l \in TableLists(n - 1), d \in TableEntries }

\* new CustomMemory(memModel), memModel with slotCount, bankCount and slots
CustomMemoryOfTable(mm) ==
    IF Len(mm.slots) # mm.slotCount THEN NoMemory(SlotCountError)
    ELSE IF \E i \in 1..Len(mm.slots) :
               /\ mm.slots[i].isNumber
               /\ ~(mm.slots[i].bank >= 0 /\ mm.slots[i].bank < mm.bankCount)
    THEN NoMemory(BankIndexError)
    ELSE [ok |-> TRUE, err |-> NoError, slots |-> mm.slots, slotSize |-> 0,
          slotCount |-> Q(mm.slotCount, 1), bankCount |-> Q(mm.bankCount, 1),
          notPopulatedBank |-> Q(-1, 1)]

\* new CustomMemory(memModel)
CustomMemory(mm) ==
    IF mm.form = "list" THEN CustomMemoryOfList(mm.slots) ELSE CustomMemoryOfTable(mm)

\* no custom memory was configured, none was constructed
NoMemModel == [form |-> "none"]
NotConstructed == NoMemory("not constructed")
NoQuery == [op |-> "none", slots |-> UndefinedSlots, address |-> -1,
            banks |-> << >>, long |-> -1]

\* the configurations of the memory that are explored
MemModels ==
    { [form |-> "list", slots |-> l] :
          l \in UNION { SlotLists(n) : n \in 1..MaxSlots } }
        \cup { [form |-> "table", slotCount |-> n, bankCount |-> 2, slots |-> t] :
                  n \in { 1, 2 }, t \in UNION { TableLists(k) : k \in 1..2 } }

\* the memory model is selected, the memory is not yet constructed
InitM ==
    /\ memVariant \in { "ZX16", "ZX48", "ZX128", "ZXNEXT", "CUSTOM" }
    /\ IF memVariant = "CUSTOM" THEN memModel \in MemModels
       ELSE memModel = NoMemModel
    /\ customMemory = NotConstructed
    /\ mResult = NoQuery

MUnchanged ==
    UNCHANGED <<histVars, revDbgHistory, reverseDbgStack, obsVars, zVars,
                fVars, bpVars, wpVars, sVars, yVars>>

\* new CustomMemory(memModel)
constructCustomMemory ==
    /\ memVariant = "CUSTOM"
    /\ customMemory = NotConstructed
    /\ customMemory' = CustomMemory(memModel)
    /\ UNCHANGED <<memVariant, memModel, mResult>>
    /\ MUnchanged

\* the memory model can be asked: a custom memory was constructed
ModelReady == memVariant = "CUSTOM" => customMemory.ok

\* the slot assignments passed to the memory model: undefined, or a bank for
\* every slot
SlotAssignments ==
    { UndefinedSlots } \cup
    CASE memVariant = "ZX128" -> { SlotsOf(b) : b \in [1..4 -> BankSample] }
      [] memVariant = "ZXNEXT" -> { SlotsOf(b) : b \in [1..8 -> { 0, 254 }] }
      [] memVariant = "CUSTOM" /\ ModelReady ->
            { SlotsOf(OwnerSlots),
              SlotsOf([i \in 1..SlotCount("CUSTOM") |-> 0]) }
      [] OTHER -> { SlotsOf(<< 0, 1, 2, 3 >>) }

\* getMemoryBanks(slots) is called
getMemoryBanks(slots) ==
    /\ ModelReady
    /\ mResult = NoQuery
    /\ mResult' = [op |-> "getMemoryBanks", slots |-> slots, address |-> -1,
                   banks |-> GetMemoryBanks(memVariant, slots), long |-> -1]
    /\ UNCHANGED <<memVariant, memModel, customMemory>>
    /\ MUnchanged

\* the addresses that are converted: the first and the last one of 8k areas
Addresses == { 0, 8191, 8192, 16384, 49152, 57344, 65535 }

\* the long address of an address is calculated with the decoder set by init()
calcLongAddress(address, slots) ==
    /\ memVariant \in { "ZX128", "ZXNEXT" }
    /\ slots.defined
    /\ mResult = NoQuery
    /\ mResult' = [op |-> "longAddress", slots |-> slots, address |-> address,
                   banks |-> << >>,
                   long |-> LongAddress(memVariant, address, slots.banks)]
    /\ UNCHANGED <<memVariant, memModel, customMemory>>
    /\ MUnchanged

NextM ==
    \/ constructCustomMemory
    \/ \E slots \in SlotAssignments : getMemoryBanks(slots)
    \/ \E address \in Addresses, slots \in SlotAssignments :
          calcLongAddress(address, slots)

\* the memory part is not used
MIdle ==
    /\ memVariant = "ZX48"
    /\ memModel = NoMemModel
    /\ customMemory = NotConstructed
    /\ mResult = NoQuery

-----------------------------------------------------------------------------
(* ZesaruxEmulator: the real call stack and stepOut of the running program *)

\* largest length of the cycle of stack words
MaxCycle == 3

\* ZesaruxEmulator: the stack listing is cut after 20 words
MaxStackItems == 20

\* what a word found on the stack is: the return address of a CALL, of a RST
\* (the RST opcode one or two bytes in front of the address), or data
WordKinds == { "CALL", "RST1", "RST2", "DATA" }

\* the word on the stack
WordAddr(kind) ==
    CASE kind = "CALL" -> 32771
      [] kind = "RST1" -> 33025
      [] kind = "RST2" -> 33282
      [] OTHER -> 4660

\* the three bytes in front of the address the word points to
WordMemory(kind) ==
    CASE kind = "CALL" -> << 205, 0, 144 >>
      [] kind = "RST1" -> << 0, 0, 207 >>
      [] kind = "RST2" -> << 0, 215, 0 >>
      [] OTHER -> << 0, 0, 0 >>

\* the numbers of words between SP and the top of the stack that are explored
StackWords == { 0, 1, 2, 3, 19, 20, 21, 22 }

\* the cycles of word kinds that are explored
RECURSIVE KindCycles(_)
KindCycles(n) ==
    IF n = 0 THEN { << >> }
    ELSE { Append(c, k) : c \in KindCycles(n - 1), k \in WordKinds }

\* the i-th word from SP upwards (i = 0: the word SP points to); the memory
\* goes on beyond the top of the stack
KindAt(i) == lCycle[(i % Len(lCycle)) + 1]

\* a word as the emulator prints it: four hex digits and H
HexWord(addr) == HexChars(addr \div 256) \o HexChars(addr % 256) \o << "H" >>

\* the answer of 'get-stack-backtrace depth' after split(' ') and splice:
\* depth words from SP upwards
GetStackBacktrace(depth) == [i \in 1..depth |-> HexWord(WordAddr(KindAt(i - 1)))]

\* the longest prefix of hex digits
RECURSIVE HexPrefix(_)
HexPrefix(str) ==
    IF Len(str) = 0 \/ ~(\E v \in 1..16 : HexDigits[v] = Head(str)) THEN << >>
    ELSE << Head(str) >> \o HexPrefix(Tail(str))

\* parseInt(addrString, 16): the digits in front of the H
ParseIntHex(str) == ParseInt16(HexPrefix(str))

\* the answer of read-memory for the three bytes in front of addr
ReadMemoryAt(addr) ==
    ReadMemory(WordMemory(CHOOSE kind \in WordKinds : WordAddr(kind) = addr))

\* new Frame(addr, sp, name) with its raw stack listing
StackFrame(addr, sp, name) == [pc |-> addr, sp |-> sp, name |-> name, stack |-> << >>]

\* RefList.addObject(obj): the list afterwards and the reference returned
AddObject(frames, obj) == [frames |-> Append(frames, obj), ref |-> Len(frames) + 1]

\* RefList.getObject(ref)
GetObject(frames, ref) == frames[ref]

\* setupCallStackFrameArray that starts a frame for every word
RECURSIVE SetupCallStackFrameArrayAllFrames(_, _, _, _, _)
SetupCallStackFrameArrayAllFrames(frames, zStack, zStackAddress, index, lastCallFrameIndex) ==
    IF index >= Len(zStack) THEN frames
    ELSE LET addr == ParseIntHex(zStack[index + 1])
             a == AddObject(frames, StackFrame(addr, zStackAddress + 2 * index, "?"))
         IN  SetupCallStackFrameArrayAllFrames(a.frames, zStack, zStackAddress,
                                               index + 1, a.ref)

\* the loop of setupCallStackFrameArray over the words that are too short
RECURSIVE SkipInvalid(_, _)
SkipInvalid(zStack, index) ==
    IF index < Len(zStack) /\ Len(zStack[index + 1]) < 4
    THEN SkipInvalid(zStack, index + 1)
    ELSE index

\* setupCallStackFrameArray(frames, zStack, zStackAddress, index,
\* lastCallFrameIndex, handler): the frames passed to the handler
RECURSIVE SetupCallStackFrameArray(_, _, _, _, _)
SetupCallStackFrameArray(frames, zStack, zStackAddress, index0, lastCallFrameIndex) ==
    LET index == SkipInvalid(zStack, index0)
    IN  IF index >= Len(zStack) THEN frames
        ELSE LET addr == ParseIntHex(zStack[index + 1])
                 r == FindCallOrRst(ReadMemoryAt(addr))
             IN  IF r.k = 3
                 THEN LET a == AddObject(frames,
                                 StackFrame(addr - 3, zStackAddress + 2 * index,
                                            "CALL " \o LabelCallAddr(r.addr)))
                      IN  SetupCallStackFrameArray(a.frames, zStack, zStackAddress,
                                                   index + 1, a.ref)
                 ELSE IF r.k = 1 \/ r.k = 2
                 THEN LET a == AddObject(frames,
                                 StackFrame(addr - r.k, zStackAddress + 2 * index,
                                            "RST " \o GetHexString(r.addr, 2) \o "h"))
                      IN  SetupCallStackFrameArray(a.frames, zStack, zStackAddress,
                                                   index + 1, a.ref)
                 ELSE LET frame == GetObject(frames, lastCallFrameIndex)
                          pushed == [frame EXCEPT !.stack = Append(@, addr)]
                      IN  SetupCallStackFrameArray(
                              [frames EXCEPT ![lastCallFrameIndex] = pushed],
                              zStack, zStackAddress, index + 1, lastCallFrameIndex)

\* the depth realStackTraceRequest asks for: the words between SP and the
\* top of the stack, 20 at most
StackTraceDepth(sp) ==
    LET depth == (TopOfStack - sp) \div 2
    IN  IF depth > MaxStackItems THEN MaxStackItems ELSE depth

\* the depth stepOut asks for
StepOutDepth(sp) ==
    LET depth == TopOfStack - sp
    IN  IF depth > MaxStackItems THEN MaxStackItems ELSE depth

\* recursiveFunc(stack, sp) of stepOut: the words taken from the listing until
\* one points behind a CALL or RST, and the SP of that word (-1: none found)
RECURSIVE RecursiveFunc(_, _, _)
RecursiveFunc(stack, sp, examined) ==
    IF Len(stack) = 0 THEN [found |-> FALSE, sp |-> -1, examined |-> examined]
    ELSE IF FindCallOrRst(ReadMemoryAt(ParseIntHex(Head(stack)))).k # 0
    THEN [found |-> TRUE, sp |-> sp, examined |-> examined + 1]
    ELSE RecursiveFunc(Tail(stack), sp + 2, examined + 1)

\* no request was made
NoRequest ==
    [op |-> "none", depth |-> -1, examined |-> 0, frames |-> << >>, sent |-> << >>]

\* the program is stopped somewhere
InitL ==
    /\ \E n \in StackWords : lSP = TopOfStack - 2 * n
    /\ \E n \in 1..MaxCycle : lCycle \in KindCycles(n)
    /\ lResult = NoRequest

LUnchanged ==
    UNCHANGED <<histVars, revDbgHistory, reverseDbgStack, obsVars, zVars,
                fVars, bpVars, wpVars, sVars, mVars, tVars, cVars, hVars,
                pVars>>

\* realStackTraceRequest(handler)
realStackTraceRequest ==
    LET depth == StackTraceDepth(lSP)
        first == AddObject(<< >>, StackFrame(32768, lSP, "PC"))
        zStack == GetStackBacktrace(depth)
    IN  /\ lResult' = [op |-> "stackTrace", depth |-> depth, examined |-> depth,
                       frames |-> IF depth > 0
                                  THEN SetupCallStackFrameArray(first.frames, zStack,
                                                                lSP, 0, first.ref)
                                  ELSE first.frames,
                       sent |-> IF depth > 0 THEN << << "get-stack-backtrace", depth >> >>
                                ELSE << >>]
        /\ UNCHANGED <<lSP, lCycle>>
        /\ LUnchanged

\* stepOut(handler) of the running program: the commands sent to the emulator
StepOutLive ==
    LET depth == StepOutDepth(lSP)
        r == RecursiveFunc(GetStackBacktrace(depth), lSP, 0)
    IN  /\ lResult' = [op |-> "stepOut", depth |-> depth,
                       examined |-> IF depth = 0 THEN 0 ELSE r.examined,
                       frames |-> << >>,
                       sent |-> IF depth = 0 THEN << >>
                                ELSE IF r.found
                                THEN << << "get-stack-backtrace", depth >>,
                                        << "set-breakpointaction", STEP_BREAKPOINT_ID >>,
                                        << "set-breakpoint", STEP_BREAKPOINT_ID, r.sp + 2 >>,
                                        << "enable-breakpoint", STEP_BREAKPOINT_ID >>,
                                        << "run" >>,
                                        << "disable-breakpoint", STEP_BREAKPOINT_ID >> >>
                                ELSE << << "get-stack-backtrace", depth >> >>]
        /\ UNCHANGED <<lSP, lCycle>>
        /\ LUnchanged

NextL ==
    \/ realStackTraceRequest
    \/ StepOutLive

\* the real stack part is not used
LIdle ==
    /\ lSP = TopOfStack
    /\ lCycle = << "DATA" >>
    /\ lResult = NoRequest

-----------------------------------------------------------------------------
(* DebugSessionClass: the requests whose bodies are passed to serializer.exec *)

\* largest number of requests of SpecT
MaxSessionRequests == 3

\* a function passed to serializer.exec by request req; waits: it calls
\* endExec() only when a call of the remote (or of vscode) has ended
Job(req, name, waits) == [req |-> req, job |-> name, waits |-> waits]

\* the functions a request passes to serializer.exec, in order.
\* first: no other stack trace request waits for its response;
\* found: variablesRequest found its variable object;
\* dasm: the stack trace needs a new disassembly
JobsOf(req, kind, first, found, dasm) ==
    CASE kind = "setBreakpoints" -> << Job(req, "setBreakpoints", TRUE) >>
      [] kind = "threads" -> << Job(req, "threads", FALSE) >>
      [] kind = "variables" -> << Job(req, "variables", found) >>
      [] kind = "continue" -> << Job(req, "continue", FALSE) >>
      [] kind = "reverseContinue" -> << Job(req, "reverseContinue", FALSE) >>
      [] kind = "stepIn" -> << Job(req, "stepIn", TRUE) >>
      [] kind = "stepBack" -> << Job(req, "stepBack", TRUE) >>
      [] OTHER -> IF first
                  THEN << Job(req, "stackTrace", TRUE),
                          Job(req, "disassembly", dasm),
                          Job(req, "sendResponses", FALSE),
                          Job(req, "handleHistorySpot", FALSE) >>
                  ELSE << >>

RequestKinds ==
    { "setBreakpoints", "threads", "stackTrace", "variables", "continue",
      "reverseContinue", "stepIn", "stepBack" }

\* sendResponse(response) of request req
SendResponse(sent, req) == [sent EXCEPT ![req] = @ + 1]

\* the loop 'Send as often as there have been requests': every waiting
\* request gets the frames of the computation of request req
RECURSIVE SendAll(_, _, _, _)
SendAll(responses, sent, frames, req) ==
    IF Len(responses) = 0
    THEN [responses |-> responses, sent |-> sent, frames |-> frames]
    ELSE SendAll(Tail(responses), SendResponse(sent, Head(responses)),
                 [frames EXCEPT ![Head(responses)] = req], req)

\* the session state a function works on
SessionState(queue, calls, responses, sent, frames) ==
    [queue |-> queue, calls |-> calls, responses |-> responses, sent |-> sent,
     frames |-> frames]

\* what the function of a job does when the serializer calls it, up to the
\* point where it returns
StartOf(h, st) ==
    CASE h.job \in { "continue", "reverseContinue" } ->
            [st EXCEPT !.calls = @ \cup { h }, !.sent = SendResponse(@, h.req)]
      [] h.job = "stepIn" ->
            [st EXCEPT !.calls = @ \cup { h }, !.sent = SendResponse(@, h.req)]
      [] h.job \in { "threads", "variables" } /\ ~h.waits ->
            [st EXCEPT !.sent = SendResponse(@, h.req)]
      [] h.job = "sendResponses" ->
            LET r == SendAll(st.responses, st.sent, st.frames, h.req)
            IN  [st EXCEPT !.responses = r.responses, !.sent = r.sent,
                           !.frames = r.frames]
      [] h.waits -> [st EXCEPT !.calls = @ \cup { h }]
      [] OTHER -> st

\* the serializer calls the functions that call endExec() before they
\* return, one after the other, and then the first that does not
RECURSIVE RunJobs(_)
RunJobs(st) ==
    IF Len(st.queue) = 0 THEN st
    ELSE LET h == Head(st.queue)
             started == StartOf(h, st)
         IN  IF h.waits THEN started
             ELSE RunJobs([started EXCEPT !.queue = Tail(@)])

\* serializer.exec(func) for the functions of a request
ExecAll(st, jobs) ==
    IF Len(jobs) = 0 THEN st
    ELSE IF Len(st.queue) = 0 THEN RunJobs([st EXCEPT !.queue = jobs])
    ELSE [st EXCEPT !.queue = @ \o jobs]

\* what the then() of the call of a waiting job does, endExec() excluded
ThenOf(h, st) ==
    CASE h.job \in { "setBreakpoints", "variables", "stepBack" } ->
            [st EXCEPT !.sent = SendResponse(@, h.req)]
      [] OTHER -> st

\* serializer.endExec() at the end of then(): the next functions run
EndExecOf(st) == RunJobs([st EXCEPT !.queue = Tail(@)])

TState == SessionState(tQueue, tCalls, stackTraceResponses, tSent, tFrames)

TSet(st) ==
    /\ tQueue' = st.queue
    /\ tCalls' = st.calls
    /\ stackTraceResponses' = st.responses
    /\ tSent' = st.sent
    /\ tFrames' = st.frames

TUnchanged ==
    UNCHANGED <<histVars, revDbgHistory, reverseDbgStack, obsVars, zVars,
                fVars, bpVars, wpVars, sVars, mVars, lVars, cVars, hVars,
                pVars>>

\* the session starts
InitT ==
    /\ tQueue = << >>
    /\ tCalls = {}
    /\ stackTraceResponses = << >>
    /\ tSent = [req \in 1..MaxSessionRequests |-> 0]
    /\ tFrames = [req \in 1..MaxSessionRequests |-> 0]
    /\ tCount = 0

\* a request of vscode arrives: setBreakPointsRequest, threadsRequest,
\* stackTraceRequest, variablesRequest, continueRequest,
\* reverseContinueRequest, stepInRequest or stepBackRequest
Request(kind, found, dasm) ==
    LET req == tCount + 1
        first == Len(stackTraceResponses) = 0
        pushed == IF kind = "stackTrace"
                  THEN [TState EXCEPT !.responses = Append(@, req)]
                  ELSE TState
    IN  /\ tCount < MaxSessionRequests
        /\ tCount' = req
        /\ TSet(ExecAll(pushed, JobsOf(req, kind, first, found, dasm)))
        /\ TUnchanged

\* a call of the remote ends and its promise is fulfilled: then() runs
CallFulfilled(h) ==
    /\ h \in tCalls
    /\ LET st == [TState EXCEPT !.calls = @ \ { h }]
       IN  TSet(IF h.waits THEN EndExecOf(ThenOf(h, st)) ELSE st)
    /\ UNCHANGED tCount
    /\ TUnchanged

\* a call of the remote ends and its promise is rejected: no then() runs,
\* there is no catch()
CallRejected(h) ==
    /\ h \in tCalls
    /\ tCalls' = tCalls \ { h }
    /\ UNCHANGED <<tQueue, stackTraceResponses, tSent, tFrames, tCount>>
    /\ TUnchanged

\* a call of the remote ends
CallEnds == \E h \in tCalls : CallFulfilled(h) \/ CallRejected(h)

NextT ==
    \/ \E kind \in RequestKinds, found \in BOOLEAN, dasm \in BOOLEAN :
          Request(kind, found, dasm)
    \/ \E h \in tCalls : CallFulfilled(h)
    \/ \E h \in tCalls : CallRejected(h)

\* the session part of SpecT is not used
TIdle == InitT

-----------------------------------------------------------------------------
(* ZesaruxEmulator: continue and pause of the running program *)

\* largest number of continues of SpecC
MaxContinues == 4

NoCommand == "none"

\* the commands continue() sends, each in the handler of the one before
FirstCommand(logEnabled) ==
    IF logEnabled THEN "cpu-transaction-log enabled yes"
    ELSE "reset-tstates-partial"

\* the emulator works on a command sent before 'run', or runs the program
BeforeStop ==
    { "cpu-transaction-log enabled yes", "reset-tstates-partial", "run" }

\* the handler of 'get-cpu-frequency' calling contStoppedHandler before it sets the state
ContinueStoppedHandlerFirst == [state |-> "IDLE", handlerState |-> state]

\* the handler of 'get-cpu-frequency': the state is set, then the handler
\* of continue() is called
ContinueStopped == [state |-> "IDLE", handlerState |-> "IDLE"]

CUnchanged ==
    UNCHANGED <<histVars, revDbgHistory, reverseDbgStack, obsVars, zVars,
                fVars, bpVars, wpVars, sVars, mVars, lVars, tVars, hVars,
                pVars>>

\* the emulator is initialized, the program is stopped
InitC ==
    /\ state = "IDLE"
    /\ cAwaited = NoCommand
    /\ cBlank = FALSE
    /\ cPaused = FALSE
    /\ cHandler = 0
    /\ cHandlerState = "none"
    /\ cReason = "none"
    /\ cLogClosing = FALSE
    /\ cCount = 0

\* continue() when not in step back mode, up to its return
ContinueLive(logEnabled) ==
    /\ cAwaited = NoCommand
    /\ cCount < MaxContinues
    /\ cCount' = cCount + 1
    /\ state' = "RUNNING"
    /\ cAwaited' = FirstCommand(logEnabled)
    /\ cPaused' = FALSE
    /\ cHandler' = 0
    /\ cHandlerState' = "none"
    /\ cReason' = "none"
    /\ UNCHANGED <<cBlank, cLogClosing>>
    /\ CUnchanged

\* the emulator answers a command that is not 'run': the handler given to
\* zSocket.send() is called. Commands are answered in the order sent
CommandAnswered ==
    /\ cAwaited \notin { NoCommand, "run" }
    /\ ~cLogClosing
    /\ CASE cAwaited = "cpu-transaction-log enabled yes" ->
              /\ cAwaited' = "reset-tstates-partial"
              /\ UNCHANGED <<state, cHandler, cHandlerState, cLogClosing>>
         [] cAwaited = "reset-tstates-partial" ->
              /\ cAwaited' = "run"
              /\ UNCHANGED <<state, cHandler, cHandlerState, cLogClosing>>
         [] cAwaited = "get-tstates-partial" ->
              /\ cAwaited' = "get-cpu-frequency"
              /\ UNCHANGED <<state, cHandler, cHandlerState, cLogClosing>>
         [] OTHER ->
              /\ cAwaited' = NoCommand
              /\ state' = ContinueStopped.state
              /\ cHandlerState' = ContinueStopped.handlerState
              /\ cLogClosing' = TRUE
              /\ cHandler' = cHandler + 1
    /\ UNCHANGED <<cBlank, cPaused, cReason, cCount>>
    /\ CUnchanged

\* the program hits a breakpoint: the emulator answers 'run'
BreakpointHit ==
    /\ cAwaited = "run"
    /\ cAwaited' = "get-tstates-partial"
    /\ cReason' = "Breakpoint hit"
    /\ UNCHANGED <<state, cBlank, cPaused, cHandler, cHandlerState, cLogClosing,
                   cCount>>
    /\ CUnchanged

\* the emulator finds the blank while it runs the program and answers 'run'
RunInterrupted ==
    /\ cAwaited = "run"
    /\ cBlank
    /\ cBlank' = FALSE
    /\ cAwaited' = "get-tstates-partial"
    /\ cReason' = "Stopped by the blank"
    /\ UNCHANGED <<state, cPaused, cHandler, cHandlerState, cLogClosing, cCount>>
    /\ CUnchanged

\* pauseRequest: pause() sends a blank. It reaches the emulator behind the
\* commands sent before it and stops the run; with the program stopped it
\* is an empty command
pause ==
    /\ cBlank' = (cAwaited \in BeforeStop)
    /\ cPaused' = (cPaused \/ cAwaited \in BeforeStop)
    /\ UNCHANGED <<state, cAwaited, cHandler, cHandlerState, cReason,
                   cLogClosing, cCount>>
    /\ CUnchanged

\* handleTransactionLog(): the emulator answers 'cpu-transaction-log enabled
\* no' after the handler of continue() was called
LogClosed ==
    /\ cLogClosing
    /\ cLogClosing' = FALSE
    /\ UNCHANGED <<state, cAwaited, cBlank, cPaused, cHandler, cHandlerState,
                   cReason, cCount>>
    /\ CUnchanged

NextC ==
    \/ \E logEnabled \in BOOLEAN : ContinueLive(logEnabled)
    \/ CommandAnswered
    \/ BreakpointHit
    \/ RunInterrupted
    \/ pause
    \/ LogClosed

\* the continue part is not used
CIdle == InitC

-----------------------------------------------------------------------------
(* ZxSimCpuHistory: the history spot *)

\* largest Settings.launch.history.spotCount of SpecH
MaxSpotCount == 2

\* nothing was emitted
NoSpot ==
    [op |-> "none", count |-> 0, error |-> NoError, events |-> 0,
     startIndex |-> -1, addresses |-> << >>, before |-> << >>, after |-> << >>]

\* Z80Registers.decoder.parsePC(line)
ParsePC(line) == line.pc

\* the loop 'Before historyIndex' going on behind the write index
RECURSIVE BeforeLoopAcross(_, _, _, _, _, _)
BeforeLoopAcross(h, w, index, i, count, acc) ==
    IF i > count THEN acc
    ELSE LET pushed == [addresses |-> Append(acc.addresses, ParsePC(GetAt(h, index))),
                        before |-> Append(acc.before, index)]
             next == IF index - 1 < 0 THEN Len(h) - 1 ELSE index - 1
         IN  BeforeLoopAcross(h, w, next, i + 1, count, pushed)

\* the loop 'Before historyIndex': the PCs of the line at index and of the
\* lines before it; before lists the indices read
RECURSIVE BeforeLoop(_, _, _, _, _, _)
BeforeLoop(h, w, index, i, count, acc) ==
    IF i > count THEN acc
    ELSE LET pushed == [addresses |-> Append(acc.addresses, ParsePC(GetAt(h, index))),
                        before |-> Append(acc.before, index)]
             next == IF index - 1 < 0 THEN Len(h) - 1 ELSE index - 1
         IN  IF next = w THEN pushed
             ELSE BeforeLoop(h, w, next, i + 1, count, pushed)

\* the loop 'After historyIndex': the PCs of the lines after index are put
\* in front; after lists the indices read
RECURSIVE AfterLoop(_, _, _, _, _, _)
AfterLoop(h, w, index, i, count, acc) ==
    IF i >= count \/ index = w THEN [acc EXCEPT !.index = index]
    ELSE LET next == IF index + 1 >= Len(h) THEN 0 ELSE index + 1
         IN  AfterLoop(h, w, next, i + 1, count,
                       [acc EXCEPT !.addresses = << ParsePC(GetAt(h, next)) >> \o @,
                                   !.after = Append(@, next)])

\* emitHistorySpot() as a function of the fields of the store
EmitHistorySpot(h, r, w, count) ==
    IF count <= 0 THEN [NoSpot EXCEPT !.op = "emitHistorySpot", !.count = count]
    ELSE IF ~(Len(h) > 0)
    THEN [NoSpot EXCEPT !.op = "emitHistorySpot", !.count = count,
                        !.error = AssertionError]
    ELSE LET startIndex == IF r < 0 THEN w ELSE r
             b == BeforeLoop(h, w, startIndex, 0, count,
                             [addresses |-> << >>, before |-> << >>])
             a == AfterLoop(h, w, startIndex, 0, count,
                            [addresses |-> b.addresses, after |-> << >>,
                             index |-> startIndex])
             converted == w - a.index
         IN  [op |-> "emitHistorySpot", count |-> count, error |-> NoError,
              events |-> 1,
              startIndex |-> IF converted < 0 THEN converted + Len(h) ELSE converted,
              addresses |-> a.addresses, before |-> b.before, after |-> a.after]

HUnchanged ==
    UNCHANGED <<histVars, revDbgHistory, reverseDbgStack, obsVars, zVars,
                fVars, bpVars, wpVars, sVars, mVars, lVars, tVars, cVars,
                pVars>>

\* emitHistorySpot() with Settings.launch.history.spotCount = count
emitHistorySpot(count) ==
    /\ spot = NoSpot
    /\ spot' = EmitHistorySpot(history, historyIndex, historyWriteIndex, count)
    /\ HUnchanged

\* the observation is taken
SpotTaken ==
    /\ spot # NoSpot
    /\ spot' = NoSpot
    /\ HUnchanged

NextH ==
    \/ spot = NoSpot /\ init
    \/ spot = NoSpot /\ clear
    \/ spot = NoSpot /\ PushPlain
    \/ spot = NoSpot /\ PushExchange
    \/ spot = NoSpot /\ getPrevRegistersAsync
    \/ spot = NoSpot /\ getNextRegisters
    \/ \E count \in -1..MaxSpotCount : emitHistorySpot(count)
    \/ SpotTaken

\* the history spot is not used
HIdle == spot = NoSpot

-----------------------------------------------------------------------------
(* CustomMemory: the bank control ports *)

\* largest banked.count of SpecP
MaxBanked == 3

\* banked.control: ioPort as mask and match (a plain port has the mask
\* 0xFFFF), and ioBitMap
Control(mask, match, ioBitMap) ==
    [present |-> TRUE, mask |-> mask, match |-> match, ioBitMap |-> ioBitMap]

NoControl == [present |-> FALSE, mask |-> 0, match |-> 0, ioBitMap |-> << >>]

\* the controls that are explored: port 0x7FFD with one and with two bits,
\* the ports xxFDh with bit 15 clear with the bits 0 and 1
Controls ==
    { NoControl, Control(65535, 32765, << 0 >>), Control(65535, 32765, << 0, 1 >>),
      Control(33023, 253, << 0, 1 >>) }

\* the ranges of the declared slots that are explored
PortRanges ==
    { << 0, 16383 >>, << 0, 32767 >>, << 16384, 32767 >>, << 16384, 65535 >>,
      << 32768, 65535 >> }

PortSlotDecls ==
    { [begin |-> r[1], end |-> r[2], count |-> c, control |-> k] :
          r \in PortRanges, c \in 1..MaxBanked, k \in Controls }

\* the lists of n declared slots in ascending order
RECURSIVE PortSlotLists(_)
PortSlotLists(n) ==
    IF n = 0 THEN { << >> }
    ELSE UNION { { Append(l, d) :
                     d \in { e \in PortSlotDecls :
                                Len(l) = 0 \/ e.begin > l[Len(l)].end } } :
                 l \in PortSlotLists(n - 1) }

\* "Allocated non-populated bank": slot.firstBank of the slots from i on
RECURSIVE FirstBanks(_, _, _, _)
FirstBanks(list, i, bankCount, notPopulatedBank) ==
    IF i > Len(list) THEN << >>
    ELSE IF list[i].populated
    THEN << bankCount >>
            \o FirstBanks(list, i + 1, bankCount + list[i].bankCount, notPopulatedBank)
    ELSE IF notPopulatedBank < 0
    THEN << bankCount >> \o FirstBanks(list, i + 1, bankCount + 1, bankCount)
    ELSE << notPopulatedBank >>
            \o FirstBanks(list, i + 1, bankCount, notPopulatedBank)

\* the control of the declared slot that begins at begin
ControlAt(mm, begin, populated) ==
    IF populated /\ \E i \in 1..Len(mm) : mm[i].begin = begin
    THEN mm[CHOOSE i \in 1..Len(mm) : mm[i].begin = begin].control
    ELSE NoControl

\* the slots of the constructor for a model whose slot sizes are multiples
\* of the smallest: sizeInPages, bankCount, firstBank, firstSlot, control
PortSlots(mm) ==
    LET list == CheckAndFill(MappedSlots(mm), 1).list
        slotSize == MinSize(list)
        sized == [i \in 1..Len(list) |->
                    [populated |-> list[i].populated,
                     sizeInPages |-> list[i].size \div slotSize,
                     bankCount |-> list[i].bankCount * (list[i].size \div slotSize)]]
        first == FirstBanks(sized, 1, 0, -1)
    IN  [i \in 1..Len(list) |->
            [begin |-> list[i].begin, populated |-> list[i].populated,
             sizeInPages |-> sized[i].sizeInPages, bankCount |-> sized[i].bankCount,
             firstBank |-> first[i], firstSlot |-> list[i].begin \div slotSize,
             control |-> ControlAt(mm, list[i].begin, list[i].populated)]]

\* the models the constructor accepts, with sizes that are multiples of the
\* smallest
PortModels ==
    { mm \in UNION { PortSlotLists(n) : n \in 1..MaxSlots } :
        LET r == CheckAndFill(MappedSlots(mm), 1)
        IN  /\ r.err = NoError
            /\ \A i \in 1..Len(r.list) : r.list[i].size % MinSize(r.list) = 0 }

\* decodeBankBits(byte, bitmap)
RECURSIVE DecodeBankBits(_, _, _)
DecodeBankBits(byte, bitmap, b) ==
    IF b > Len(bitmap) THEN 0
    ELSE (IF BitAnd(byte, 2 ^ bitmap[b]) # 0 THEN 2 ^ (b - 1) ELSE 0)
            + DecodeBankBits(byte, bitmap, b + 1)

\* the function returned by decodePortMask(port)
Matcher(control, port) ==
    control.present /\ BitAnd(port, control.mask) = control.match

\* SimulatedMemory.setSlot(slot, bank)
SetSlot(slots, slot, bank) ==
    IF slot + 1 \in DOMAIN slots THEN [slots EXCEPT ![slot + 1] = bank] ELSE slots

\* for (let i = 0; i < slot.sizeInPages; i++) setSlot(firstSlot+i, ...)
RECURSIVE SetPages(_, _, _, _)
SetPages(slots, slot, bank, i) ==
    IF ~(i < slot.sizeInPages) THEN slots
    ELSE SetPages(SetSlot(slots, slot.firstSlot + i, slot.firstBank + bank + i),
                  slot, bank, i + 1)

\* the function registered for a slot with registerGenericOutPortFunction
OutPortFunction(slots, slot, port, value) ==
    IF Matcher(slot.control, port)
    THEN SetPages(slots, slot,
                  DecodeBankBits(value, slot.control.ioBitMap, 1) * slot.sizeInPages, 0)
    ELSE slots

\* a write to a port calls the registered functions one after the other
RECURSIVE OutPort(_, _, _, _, _)
OutPort(slots, infos, i, port, value) ==
    IF i > Len(infos) THEN slots
    ELSE OutPort(OutPortFunction(slots, infos[i], port, value), infos, i + 1,
                 port, value)

\* the number of slots: 0x10000 / slotSize
PortSlotCount(mm) ==
    65536 \div MinSize(CheckAndFill(MappedSlots(mm), 1).list)

NoOut == [port |-> -1, value |-> -1]

PUnchanged ==
    UNCHANGED <<histVars, revDbgHistory, reverseDbgStack, obsVars, zVars,
                fVars, bpVars, wpVars, sVars, mVars, lVars, tVars, cVars, hVars>>

\* the custom memory is constructed: one bank for every slot
InitP ==
    /\ pModel \in PortModels
    /\ pSlots = [i \in 1..PortSlotCount(pModel) |-> i - 1]
    /\ pOut = NoOut

\* the written ports and values
OutPorts == { 32765, 253, 254 }
OutValues == 0..3

\* the program writes value to port
out(port, value) ==
    /\ pSlots' = OutPort(pSlots, PortSlots(pModel), 1, port, value)
    /\ pOut' = [port |-> port, value |-> value]
    /\ UNCHANGED pModel
    /\ PUnchanged

NextP == \E port \in OutPorts, value \in OutValues : out(port, value)

\* the bank control part is not used
PIdle == pModel = << >> /\ pSlots = << >> /\ pOut = NoOut

YIdle == LIdle /\ TIdle /\ CIdle /\ HIdle /\ PIdle

XIdle == SIdle /\ MIdle /\ YIdle

-----------------------------------------------------------------------------
(* The specifications *)

EIdle == FIdle /\ BpIdle /\ WpIdle /\ XIdle

Init == InitHist /\ ZIdle /\ EIdle
Next == NextHist
Spec == Init /\ [][Next]_vars

InitSpecZ == InitZ /\ HistIdle /\ EIdle
SpecZ == InitSpecZ /\ [][NextZ]_vars

\* the emulator with all six operations that are served from the history
NextN ==
    \/ NextZ
    \/ StepOverHistory
    \/ StepOutHistory

SpecN == InitSpecZ /\ [][NextN]_vars

\* largest number of lines in the cpu transaction log of SpecO
MaxLines == 3

\* stepInto(handler), live, while the log holds fewer than MaxLines lines;
\* the instruction continues at 0x8000
StepIntoLiveLong ==
    /\ ~IsInStepBackMode
    /\ \E kind \in CpuKinds : CpuStepWithin(kind, 32768, MaxLines)
    /\ reverseDbgStack' = Undefined
    /\ zOp' = "cpu-step"
    /\ zError' = NoError
    /\ zEvents' = << HandlerCalled >>
    /\ UNCHANGED <<logPos, revDbgHistory, histVars, obsVars, eVars>>

\* the emulator with a longer log: the program runs, the user steps back
\* and goes forward again with continue, stepInto, stepOver and stepOut
NextO ==
    \/ StepIntoLiveLong
    \/ stepBack
    \/ StepIntoHistory
    \/ ContinueHistory
    \/ StepOverHistory
    \/ StepOutHistory

SpecO == InitSpecZ /\ [][NextO]_vars

\* the store's variables that the emulator commands do not use
StoreIdle == HistIdle /\ revDbgHistory = << >> /\ reverseDbgStack = Undefined

InitSpecF == InitF /\ StoreIdle /\ ZIdle /\ BpIdle /\ WpIdle /\ XIdle
SpecF == InitSpecF /\ [][NextF]_vars

InitSpecBp == InitBp /\ StoreIdle /\ ZIdle /\ FIdle /\ WpIdle /\ XIdle
SpecBp == InitSpecBp /\ [][NextBp]_vars

InitSpecWp == InitWp /\ StoreIdle /\ ZIdle /\ FIdle /\ BpIdle /\ XIdle
SpecWp == InitSpecWp /\ [][NextWp]_vars

InitSpecS == InitS /\ StoreIdle /\ ZIdle /\ FIdle /\ BpIdle /\ WpIdle /\ MIdle /\ YIdle
SpecS == InitSpecS /\ [][NextS]_vars

InitSpecM == InitM /\ StoreIdle /\ ZIdle /\ FIdle /\ BpIdle /\ WpIdle /\ SIdle /\ YIdle
SpecM == InitSpecM /\ [][NextM]_vars

BaseIdle == StoreIdle /\ ZIdle /\ FIdle /\ BpIdle /\ WpIdle /\ SIdle /\ MIdle

InitSpecL == InitL /\ BaseIdle /\ TIdle /\ CIdle /\ HIdle /\ PIdle
SpecL == InitSpecL /\ [][NextL]_vars

InitSpecT == InitT /\ BaseIdle /\ LIdle /\ CIdle /\ HIdle /\ PIdle
SpecT == InitSpecT /\ [][NextT]_vars

\* every call of the remote ends at some time, one way or the other
SpecTF == SpecT /\ WF_vars(CallEnds)

SpecH == Init /\ [][NextH]_vars

InitSpecP == InitP /\ BaseIdle /\ LIdle /\ TIdle /\ CIdle /\ HIdle
SpecP == InitSpecP /\ [][NextP]_vars

InitSpecC == InitC /\ BaseIdle /\ LIdle /\ TIdle /\ HIdle /\ PIdle
SpecC == InitSpecC /\ [][NextC]_vars

\* the emulator answers every command, and stops a run when it has a blank
SpecCF ==
    SpecC /\ WF_vars(CommandAnswered) /\ WF_vars(LogClosed) /\ WF_vars(RunInterrupted)

-----------------------------------------------------------------------------
(* Properties of ZxSimCpuHistory, checked under Spec *)

\* C1: after N plain pushes from init(): N < maxSize gives length N and write
\* cursor N-1; N = maxSize+K gives length maxSize and write cursor
\* (K-1) mod maxSize; the length never exceeds maxSize.
C1_RingCursor ==
    plainOnly =>
        /\ Len(history) <= maxSize
        /\ pushCount < maxSize =>
              Len(history) = pushCount /\ historyWriteIndex = pushCount - 1
        /\ pushCount >= maxSize =>
              /\ Len(history) = maxSize
              /\ historyWriteIndex = (pushCount - maxSize - 1) % maxSize

\* C1 witness: the buffer has wrapped around at least once
C1_Witness ==
    plainOnly /\ maxSize >= 2 /\ pushCount >= 2 * maxSize + 1

\* C2: a read cursor that is not live never points at an entry that a push
\* has overwritten since the cursor entered rewind.
C2_NoOverwriteUnderCursor ==
    historyIndex # -1 => historyIndex \notin overwritten

\* C3: the i-th stepBack in a row from the live edge returns the i-th newest
\* retained line (so each retained line once, newest to oldest); every call
\* after the oldest line returns NONE and leaves the cursor on the oldest line.
C3_StepBackOrder ==
    (lastOp = "stepBack" /\ nBack > 0 /\ Len(history) >= 1) =>
        LET n == Len(history)
        IN  IF nBack <= n
            THEN /\ historyIndex = (historyWriteIndex - (nBack - 1)) % n
                 /\ lastLine = history[historyIndex + 1]
            ELSE /\ lastLine = NONE
                 /\ historyIndex = (historyWriteIndex + 1) % n

\* C3 witness: 3 lines pushed into a buffer of 2, then line3, line2, NONE
C3_Witness ==
    /\ maxSize = 2
    /\ history = << [pc |-> 32770], [pc |-> 32769] >>
    /\ historyWriteIndex = 0
    /\ lastOp = "stepBack" /\ nBack = 3
    /\ lastLine = NONE /\ historyIndex = 1

\* C4: k stepBack calls from the live edge (k at most the number of retained
\* lines) followed by k stepForward calls end live, the last stepForward
\* returning NONE and none before it; buffer and write cursor are untouched.
C4_Step ==
    /\ lastOp' \in {"stepBack", "stepForward"} =>
          history' = history /\ historyWriteIndex' = historyWriteIndex
    /\ (lastOp' = "stepForward" /\ nBack' >= 1 /\ nBack' <= Len(history')) =>
          IF nFwd' = nBack'
          THEN historyIndex' = -1 /\ lastLine' = NONE
          ELSE historyIndex' # -1 /\ lastLine' # NONE

C4_BackThenForward == [][C4_Step]_vars

\* C4 witness: three steps back and three steps forward in a full buffer
C4_Witness ==
    /\ lastOp = "stepForward" /\ nBack = 3 /\ nFwd = 3
    /\ Len(history) = 3 /\ historyIndex = -1

\* C5 (as claimed): after clear() the history has zero length, the write
\* cursor is 'none' and the read cursor is live.
C5_ClearTruncates ==
    lastOp = "clear" =>
        Len(history) = 0 /\ historyWriteIndex = -1 /\ historyIndex = -1

\* C5 (amended): clear(), also mid-rewind, makes the read cursor live, empties
\* revDbgHistory and drops the virtual stack; the history buffer and the
\* write cursor are left as they were.
C5_ClearKeepsBuffer ==
    [][lastOp' = "clear" =>
          /\ historyIndex' = -1
          /\ revDbgHistory' = << >>
          /\ reverseDbgStack' = Undefined
          /\ history' = history
          /\ historyWriteIndex' = historyWriteIndex]_vars

\* C5 witness: cleared mid-rewind, the lines are still there
C5_Witness ==
    lastOp = "clear" /\ preIndex # -1 /\ Len(history) >= 2 /\ historyIndex = -1

\* C6: a push with exchange=true on a non-empty buffer replaces only the
\* entry at the write cursor (length, both cursors and all other entries
\* unchanged); on an empty buffer it appends (length 1, write cursor 0).
C6_Step ==
    lastOp' = "exchange" =>
        IF Len(history) > 0
        THEN /\ Len(history') = Len(history)
             /\ historyWriteIndex' = historyWriteIndex
             /\ historyIndex' = historyIndex
             /\ history'[historyWriteIndex + 1] = lastLine'
             /\ \A j \in 1..Len(history) :
                    j # historyWriteIndex + 1 => history'[j] = history[j]
        ELSE /\ history' = << lastLine' >>
             /\ historyWriteIndex' = 0
             /\ historyIndex' = historyIndex

C6_ExchangeFrame == [][C6_Step]_vars

\* C6 witness: an exchange while rewound in a buffer of several lines
C6_Witness ==
    /\ lastOp = "exchange" /\ preIndex # -1 /\ Len(history) >= 2
    /\ history[historyWriteIndex + 1] = lastLine
    /\ \E j \in 1..Len(history) : history[j] # lastLine

\* the value the claim C7 gives for getPreviousAddress(i), read cursor r not live
C7_Claimed(h, r, w, i) ==
    IF Len(h) = 0 THEN NoAddr
    ELSE LET n == Len(h)
             oldest == (w + 1) % n
             retained == ((r - oldest) % n) + 1
         IN  IF i < retained THEN h[((r - i) % n) + 1].pc ELSE NoAddr

\* C7: getPreviousAddress(i) returns the pc of the line i positions before
\* the read cursor (i = 0: the line at the read cursor), NONE when the buffer
\* is empty or the offset passes the oldest retained line.
C7_AddressAtOffset ==
    (lastOp = "getPreviousAddress" /\ (historyIndex # -1 \/ Len(history) = 0)) =>
        addrResult.value =
            C7_Claimed(history, historyIndex, historyWriteIndex, addrResult.i)

-----------------------------------------------------------------------------
(* Properties of the virtual stack of ZesaruxEmulator, checked under SpecZ *)

IsRetClass(line) == StartsWith(line.instr, InstrRET)
IsCallClass(line) ==
    StartsWith(line.instr, InstrCALL) \/ StartsWith(line.instr, InstrRST)

\* a stepBack that moved from the line L (CurrentLine) to the line P
BackStepDone == zOp' = "stepBack" /\ zError' = NoError /\ vars' # vars

\* the line after the current one: the next log line, or the live registers
LineAfter ==
    IF logPos < Len(log) THEN log[logPos + 1]
    ELSE [pc |-> liveRegs.pc, sp |-> liveRegs.sp, instr |-> << >>]

\* C8 (as claimed): a backward step from L to P with L RET-class pops one
\* more frame and pushes a frame with the placeholder label under the frame
\* of P, so the depth stays the same.
C8_RetOfLeftLine ==
    [][(BackStepDone /\ IsRetClass(CurrentLine)) =>
          LET P == log[logPos']
          IN  /\ Len(reverseDbgStack') = Len(PreparedStack)
              /\ reverseDbgStack'[1] = Frame(P.pc, P.sp, "PC")
              /\ reverseDbgStack'[2].name = CallerPlaceholder]_vars

\* C8 (amended): a backward step from L to P pops the top frame and pushes
\* the frame (P.pc, P.sp, "PC"); if P, the line stepped to, is RET-class a
\* frame (P.pc, P.sp, placeholder label) is pushed under it and no other
\* frame is popped, so the depth grows by one; whether L is RET-class does
\* not matter.
C8_RetOfLineSteppedTo ==
    [][BackStepDone =>
          LET P == log[logPos']
              before == PreparedStack
          IN  /\ reverseDbgStack'[1] = Frame(P.pc, P.sp, "PC")
              /\ IsRetClass(P) =>
                    reverseDbgStack' =
                        << Frame(P.pc, P.sp, "PC"),
                           Frame(P.pc, P.sp, CallerPlaceholder) >> \o Tail(before)
              /\ (~IsRetClass(P) /\ ~IsCallClass(P)) =>
                    reverseDbgStack' = << Frame(P.pc, P.sp, "PC") >> \o Tail(before)]_vars

\* C8 witness: stepped back from a RET line onto a RET line
C8_Witness ==
    /\ zOp = "stepBack" /\ zError = NoError
    /\ logPos # 0 /\ logPos < Len(log)
    /\ IsRetClass(log[logPos]) /\ IsRetClass(log[logPos + 1])
    /\ Len(reverseDbgStack) >= 2
    /\ reverseDbgStack[2].name = CallerPlaceholder

\* C9 (as claimed): in a backward step from L to P the depth decreases by one
\* exactly when L is CALL/RST-class and SP increased from P to L.
C9_CallOfLeftLine ==
    [][BackStepDone =>
          LET P == log[logPos']
              L == CurrentLine
          IN  (Len(reverseDbgStack') = Len(PreparedStack) - 1)
                  <=> (IsCallClass(L) /\ L.sp > P.sp)]_vars

\* C9 (amended): in a successful backward step from L to P the depth
\* decreases by one exactly when P, the line stepped to, is CALL/RST-class
\* and its SP is greater than the SP of L (the call pushed a return address);
\* when P is CALL/RST-class and its SP is not greater the depth is unchanged.
C9_CallOfLineSteppedTo ==
    [][BackStepDone =>
          LET P == log[logPos']
              L == CurrentLine
          IN  /\ (Len(reverseDbgStack') = Len(PreparedStack) - 1)
                     <=> (IsCallClass(P) /\ P.sp > L.sp)
              /\ (IsCallClass(P) /\ ~(P.sp > L.sp)) =>
                     Len(reverseDbgStack') = Len(PreparedStack)]_vars

\* C9 witness: stepped back over a CALL or RST that pushed a return address
C9_Witness ==
    /\ zOp = "stepBack" /\ zError = NoError /\ logPos # 0
    /\ IsCallClass(log[logPos]) /\ log[logPos].sp > LineAfter.sp
    /\ reverseDbgStack[1] = Frame(log[logPos].pc, log[logPos].sp, "PC")

\* the label C10 expects for a call to callAddr
C10_Label(line, callAddr) ==
    (IF StartsWith(line.instr, InstrCALL) THEN "CALL " ELSE "RST ")
        \o (IF callAddr = 32768 THEN "L8000" ELSE GetHexString(callAddr, 4) \o "h")

\* C10: a forward step from L to an existing successor N with L CALL/RST-class
\* and SP decreased from L to N pushes the frame (L.pc, "CALL/RST <target>")
\* directly under the new top frame (N.pc, N.sp, "PC"): the depth grows by
\* one; if SP did not decrease no call frame is added.
C10_ForwardCall ==
    [][(zOp' = "stepInto" /\ zError' = NoError /\ logPos # 0 /\ logPos' # 0
          /\ vars' # vars /\ IsCallClass(log[logPos])) =>
          LET L == log[logPos]
              N == log[logPos']
          IN  IF L.sp > N.sp
              THEN /\ reverseDbgStack' =
                          << Frame(N.pc, N.sp, "PC"),
                             Frame(L.pc, L.sp, C10_Label(L, N.pc)) >>
                          \o Tail(reverseDbgStack)
                   /\ Len(reverseDbgStack') = Len(reverseDbgStack) + 1
              ELSE reverseDbgStack' =
                       << Frame(N.pc, N.sp, "PC") >> \o Tail(reverseDbgStack)]_vars

\* C10 witness: the stack [{0x9000,0xFF00,"PC"}] and a CALL to 0x8000
C10_Witness ==
    /\ zOp = "stepInto" /\ zError = NoError
    /\ logPos = 2 /\ IsCallClass(log[1])
    /\ reverseDbgStack = << Frame(32768, 65278, "PC"),
                            Frame(36864, 65280, "CALL L8000") >>

\* C11: a forward step from a RET line L to an existing successor N pops the
\* top frame and one more frame and then pushes N's "PC" frame: the depth of
\* the virtual stack decreases by exactly one (with fewer than two frames
\* the step fails).
C11_Step ==
    (zOp' = "stepInto" /\ IsRetClass(log[logPos])
       /\ NextLine(Len(log), logPos).ok)
    => LET N == log[NextLine(Len(log), logPos).pos]
       IN  IF reverseDbgStack # Undefined /\ Len(reverseDbgStack) >= 2
           THEN /\ zError' = NoError
                /\ reverseDbgStack' = << Frame(N.pc, N.sp, "PC") >>
                                      \o Tail(Tail(reverseDbgStack))
                /\ Len(reverseDbgStack') = Len(reverseDbgStack) - 1
           ELSE zError' # NoError

C11_ForwardRet == [][C11_Step]_vars

\* a forward step was made from a RET line to its successor
C11_Witness ==
    /\ zOp = "stepInto"
    /\ zError = NoError
    /\ logPos > 1
    /\ IsRetClass(log[logPos - 1])
    /\ Len(reverseDbgStack) >= 1

\* C12: a forward step from the newest line (no successor) discards the
\* virtual stack and leaves step back mode; whenever the store is live a
\* stack trace request is answered with the real stack.
C12_Step ==
    /\ (zOp' = "stepInto" /\ ~NextLine(Len(log), logPos).ok)
       => /\ logPos' = 0
          /\ reverseDbgStack' = Undefined
          /\ zError' = NoError
    /\ (logPos' = 0)
       => StackTraceRequest' = [frames |-> RealStack', err |-> NoError]

C12_ForwardToLive == [][C12_Step]_vars

\* a forward step from the newest line was made
C12_Witness ==
    /\ zOp = "stepInto"
    /\ logPos = 0
    /\ Len(log) > 0
    /\ reverseDbgStack = Undefined
    /\ StackTraceRequest.frames = RealStack

\* C13: after a history step that moved the cursor without error and left
\* the session rewound, the top frame of the virtual stack is (pc, sp, "PC")
\* of the line under the cursor and no other frame is named "PC".
C13_Step ==
    (/\ zOp' \in { "stepBack", "reverseContinue", "stepInto", "continue" }
     /\ logPos' # 0
     /\ logPos' # logPos
     /\ zError' \in { NoError, EndOfHistory })
    => /\ reverseDbgStack' # Undefined
       /\ Len(reverseDbgStack') >= 1
       /\ Head(reverseDbgStack') = Frame(log[logPos'].pc, log[logPos'].sp, "PC")
       /\ \A i \in 2..Len(reverseDbgStack') : reverseDbgStack'[i].name # "PC"

C13_TopFrameIsPC == [][C13_Step]_vars

\* a backward step onto a RET line was made: the stack has a second frame
C13_Witness ==
    /\ zOp = "stepBack"
    /\ zError = NoError
    /\ logPos # 0
    /\ IsRetClass(log[logPos])
    /\ Len(reverseDbgStack) >= 2
    /\ reverseDbgStack[1].name = "PC"

\* C14: stepBack and reverseContinue work on the real stack (seed) exactly
\* when they start at the live edge and on the virtual stack when they start
\* rewound; the forward operations never take the real stack; the real stack
\* starts with the frame (PC, SP, "PC").
C14_Step ==
    LET used == IF logPos = 0 THEN RealStack ELSE reverseDbgStack
        p == PrevLine(Len(log), logPos)
    IN  /\ Len(RealStack) >= 1
        /\ Head(RealStack) = Frame(liveRegs.pc, liveRegs.sp, "PC")
        /\ zOp' = "stepBack"
           => reverseDbgStack' =
                IF p.ok
                THEN HandleReverseDebugStackBack(used, log[p.pos], CurrentLine).stack
                ELSE used
        /\ zOp' = "reverseContinue"
           => reverseDbgStack' =
                ReverseLoop(used, logPos, CurrentLine, revDbgHistory).stack
        /\ zOp' = "stepInto"
           => reverseDbgStack' \in
                { reverseDbgStack,
                  HandleReverseDebugStackFwrd(reverseDbgStack, log[logPos],
                      RevDbgNext(logPos, revDbgHistory).line).stack }
        /\ zOp' = "continue"
           => reverseDbgStack' =
                ForwardLoop(reverseDbgStack, logPos, revDbgHistory).stack
        /\ zOp' = "cpu-step" => reverseDbgStack' = Undefined

C14_SeedAtLiveEdge == [][C14_Step]_vars

\* a backward step was made from the live edge with callers on the real
\* stack, and then a second one
C14_Witness ==
    /\ zOp = "stepBack"
    /\ zError = NoError
    /\ Len(log) = 2
    /\ logPos = 1
    /\ Len(realCallers) >= 1
    /\ Len(reverseDbgStack) >= 2

\* C16: stepBack or reverseContinue started on the oldest line: the reason
\* 'Reached end of instruction history.' is reported, the cursor, the virtual
\* stack and the visited addresses are as before.
C16_Step ==
    (/\ zOp' \in { "stepBack", "reverseContinue" }
     /\ IsInStepBackMode
     /\ ~PrevLine(Len(log), logPos).ok)
    => /\ zError' = EndOfHistory
       /\ logPos' = logPos
       /\ reverseDbgStack' = reverseDbgStack
       /\ revDbgHistory' = revDbgHistory

C16_EndOfHistory == [][C16_Step]_vars

\* stepBack was called on the oldest line
C16_Witness ==
    /\ zOp = "stepBack"
    /\ zError = EndOfHistory
    /\ logPos = 1
    /\ reverseDbgStack # Undefined
    /\ Len(reverseDbgStack) >= 1

\* the backward handler would pop from an empty stack
WouldPopEmptyBack(stack, currentLine, prevLine) ==
    /\ stack # Undefined
    /\ \/ Len(stack) = 0
       \/ /\ Len(stack) = 1
          /\ ~IsRetClass(currentLine)
          /\ IsCallClass(currentLine)
          /\ currentLine.sp > prevLine.sp

\* the forward handler would pop from an empty stack
WouldPopEmptyFwrd(stack, currentLine) ==
    /\ stack # Undefined
    /\ \/ Len(stack) = 0
       \/ Len(stack) = 1 /\ IsRetClass(currentLine)

\* C17: a history step that would pop from an empty virtual stack reports an
\* assertion error and pushes no frame (the stack is left empty).
C17_Step ==
    LET p == PrevLine(Len(log), logPos)
        n == NextLine(Len(log), logPos)
    IN  /\ (/\ zOp' \in { "stepBack", "reverseContinue" }
            /\ p.ok
            /\ WouldPopEmptyBack(PreparedStack, log[p.pos], CurrentLine))
           => /\ zError' = AssertionError
              /\ reverseDbgStack' = << >>
              /\ logPos' = p.pos
        /\ (/\ zOp' \in { "stepInto", "continue" }
            /\ n.ok
            /\ WouldPopEmptyFwrd(reverseDbgStack, log[logPos]))
           => /\ zError' = AssertionError
              /\ reverseDbgStack' = << >>
              /\ logPos' = n.pos
        /\ (zOp' \in { "stepBack", "reverseContinue", "stepInto", "continue" }
            /\ zError' = AssertionError)
           => reverseDbgStack' = << >>

C17_FailsLoudly == [][C17_Step]_vars

\* a backward step onto a CALL line found the stack with one frame only
C17_Witness ==
    /\ zOp = "stepBack"
    /\ zError = AssertionError
    /\ logPos # 0
    /\ IsCallClass(log[logPos])
    /\ reverseDbgStack = << >>

-----------------------------------------------------------------------------
(* Properties of findCallOrRst, checked under SpecF *)

\* the byte is CALL nn (0xCD) or CALL cc,nn (11xxx100)
IsCallOpcode(b) == b = 205 \/ ((b \div 64) = 3 /\ (b % 8) = 4)
\* the byte is RST p (11xxx111)
IsRstOpcode(b) == (b \div 64) = 3 /\ (b % 8) = 7
\* the bits 00111000 of the byte
RstAddress(b) == ((b \div 8) % 8) * 8

-----------------------------------------------------------------------------
(* Properties of the breakpoints, checked under SpecBp *)

\* the ids in the pool of free ids
FreeIds == { freeBreakpointIds[i] : i \in 1..Len(freeBreakpointIds) }
\* the ids of the active breakpoints
UsedIds == { breakpoints[i].bpId : i \in 1..Len(breakpoints) }

\* C18: setBreakpoint called with an empty pool returns 0 without an error,
\* the list of breakpoints and the pool are unchanged, and the breakpoint is
\* reported as unverified.
C18_Step ==
    (bpLast'.op = "setBreakpoint" /\ Len(freeBreakpointIds) = 0)
    => /\ bpLast'.bpId = 0
       /\ bpLast'.error = NoError
       /\ breakpoints' = breakpoints
       /\ freeBreakpointIds' = freeBreakpointIds
       /\ ~bpLast'.verified

C19_StepIdReserved ==
    /\ STEP_BREAKPOINT_ID \notin FreeIds
    /\ STEP_BREAKPOINT_ID \notin UsedIds

\* the last id of the pool was given to a breakpoint after a removal
C19_Witness ==
    /\ bpLast.op = "setBreakpoint"
    /\ bpLast.bpId = MAX_USED_BREAKPOINTS
    /\ nRemoved = 1
    /\ MAX_USED_BREAKPOINTS \in UsedIds
    /\ Len(freeBreakpointIds) = 1

-----------------------------------------------------------------------------
(* Properties of setWatchpoints, checked under SpecWp *)

\* the watchpoints of the list without a condition, in order
RECURSIVE Unconditional(_)
Unconditional(watchPoints) ==
    IF Len(watchPoints) = 0 THEN << >>
    ELSE IF Head(watchPoints).conditions = ""
    THEN << Head(watchPoints) >> \o Unconditional(Tail(watchPoints))
    ELSE Unconditional(Tail(watchPoints))

\* the number of watchpoints of the list with a condition
NumConditional(watchPoints) == Len(watchPoints) - Len(Unconditional(watchPoints))

\* C20: when setWatchpoints is given a watchpoint with a condition, a warning
\* is emitted for it and no set-membreakpoint is sent for it, the watchpoints
\* without condition are armed and the handler gets the full list.
C20_ConditionWarned ==
    wpHandled.called
    => /\ Len(wpWarnings) = NumConditional(wpHandled.wps)
       /\ Len(wpSent) = Len(Unconditional(wpHandled.wps))
       /\ \A i \in 1..Len(wpSent) :
             wpSent[i] = SetMemBreakpoint(Unconditional(wpHandled.wps)[i])

-----------------------------------------------------------------------------
(* The pool of breakpoint ids, checked under SpecBp *)

\* C28: once initBreakpoints has run, the pool of free ids holds exactly the
\* ids of 1..99 that no active breakpoint has: removeBreakpoint gives the id
\* of the removed breakpoint back, no id is both free and active, and no two
\* active breakpoints have the same id.
C28_PoolIsComplement ==
    bpLast.op # "none"
    => /\ FreeIds = (1..MAX_USED_BREAKPOINTS) \ UsedIds
       /\ \A i, j \in 1..Len(breakpoints) :
             breakpoints[i].bpId = breakpoints[j].bpId => i = j

-----------------------------------------------------------------------------
(* The stack shown while rewound, checked under SpecZ *)

\* C29: whenever the history store is rewound the virtual call stack is
\* defined and stackTraceRequest answers with it, without error; whenever the
\* store is at the live edge stackTraceRequest answers with the real stack.
C29_VirtualIffRewound ==
    /\ IsInStepBackMode
       => /\ reverseDbgStack # Undefined
          /\ StackTraceRequest = [frames |-> reverseDbgStack, err |-> NoError]
    /\ ~IsInStepBackMode
       => StackTraceRequest = [frames |-> RealStack, err |-> NoError]

\* the store is rewound and the virtual stack is not the real one
C29_Witness ==
    /\ IsInStepBackMode
    /\ reverseDbgStack # Undefined
    /\ reverseDbgStack # RealStack
    /\ StackTraceRequest.frames = reverseDbgStack

-----------------------------------------------------------------------------
(* A backward step followed by a forward step, checked under SpecZ *)

\* C30: with the session rewound at line B, whose predecessor is A, a
\* successful backward step to A followed by the forward step from A leads
\* back to B without error and gives the virtual stack the depth it had at B
\* and the top frame (B.pc, B.sp, "PC"), whatever the instruction of A is.
C30_Step ==
    (BackStepDone /\ IsInStepBackMode) =>
        LET B == log[logPos]
            A == log[logPos']
            n == RevDbgNext(logPos', revDbgHistory')
            f == HandleReverseDebugStackFwrd(reverseDbgStack', A, n.line)
        IN  /\ n.err = NoError
            /\ n.pos = logPos
            /\ n.line = B
            /\ f.err = NoError
            /\ Len(f.stack) = Len(reverseDbgStack)
            /\ Head(f.stack) = Frame(B.pc, B.sp, "PC")

C30_BackThenForward == [][C30_Step]_vars

\* C30 witness: stepped back over a CALL that pushed a return address, and
\* forward again onto the line after it
C30_Witness ==
    /\ zOp = "stepInto" /\ zError = NoError
    /\ logPos = 2
    /\ IsCallClass(log[1]) /\ log[1].sp > log[2].sp
    /\ Len(reverseDbgStack) >= 2
    /\ Head(reverseDbgStack) = Frame(log[2].pc, log[2].sp, "PC")

-----------------------------------------------------------------------------
(* The revDbgHistory notification, checked under SpecN *)

\* the operations that are served from the history
HistoryOps ==
    { "stepBack", "reverseContinue", "stepInto", "stepOver", "stepOut", "continue" }

\* the positions of the events of the last operation with the given name
EventIndexes(name) == { i \in 1..Len(zEvents) : zEvents[i].event = name }

\* C22: every operation served from the history emits revDbgHistory exactly
\* once, with the addresses as they are after the operation's updates and
\* before the handler is called, also when the operation ended with an error.
C22_EmittedOnce ==
    zOp \in HistoryOps
    => /\ Cardinality(EventIndexes("revDbgHistory")) = 1
       /\ Cardinality(EventIndexes("handler")) = 1
       /\ \A i \in EventIndexes("revDbgHistory") :
             /\ zEvents[i].addresses = revDbgHistory
             /\ \A j \in EventIndexes("handler") : i < j

\* an operation served from the history failed, and the notification was
\* emitted once before its handler
C22_Witness ==
    /\ zOp \in { "stepOver", "stepOut", "stepBack" }
    /\ zError # NoError
    /\ zEvents = << EmitRevDbgHistory(revDbgHistory), HandlerCalled >>
    /\ Len(revDbgHistory) > 0

-----------------------------------------------------------------------------
(* The serializer of the session, checked under SpecS *)

\* the commands that run the program forward
ForwardCommands == { "continue", "stepOver", "stepInto", "stepOut" }

\* the commands that move the history cursor and change the virtual stack
HistoryCommands == { "stepBack", "reverseContinue" }

\* C21: no command that changes the history or the virtual call stack is
\* started while a forward command started before it is still outstanding at
\* the remote.
C21_NoHistoryDuringForward ==
    \A i, j \in 1..Len(outstanding) :
        i < j => ~(outstanding[i] \in ForwardCommands
                   /\ outstanding[j] \in HistoryCommands)

-----------------------------------------------------------------------------
(* Properties of the memory models, checked under SpecM *)

\* the descriptors are in ascending order and partition 0x0000-0xFFFF
IsPartition(banks) ==
    /\ Len(banks) > 0
    /\ banks[1].start = 0
    /\ banks[Len(banks)].end = 65535
    /\ \A i \in 1..Len(banks) : banks[i].start <= banks[i].end
    /\ \A i \in 1..(Len(banks) - 1) : banks[i + 1].start = banks[i].end + 1

\* the memory models with one descriptor for every slot
PagedVariants == { "ZX128", "ZXNEXT", "CUSTOM" }

\* descriptor i is the range of slot i
IsSlotGrid(banks, slotCount) ==
    /\ Len(banks) = slotCount
    /\ \A i \in 1..Len(banks) :
          /\ banks[i].start = (i - 1) * (65536 \div slotCount)
          /\ banks[i].end = i * (65536 \div slotCount) - 1

\* C23 (as claimed): for every memory model and every slot assignment, also
\* without one, getMemoryBanks returns descriptors in ascending order that
\* partition 0x0000-0xFFFF; the paged models return the range
\* [i*bankSize, (i+1)*bankSize-1] for slot i.
C23_PartitionAlways ==
    mResult.op = "getMemoryBanks"
    => /\ IsPartition(mResult.banks)
       /\ memVariant \in PagedVariants
             => IsSlotGrid(mResult.banks, SlotCount(memVariant))

\* C23 (amended): getMemoryBanks returns such a partition for every memory
\* model when it is given a slot assignment with one bank for every slot, and
\* without a slot assignment for ZX16, ZX48 and the custom model; without a
\* slot assignment the ZX128 and ZX Next models return the empty list.
C23_PartitionWithSlots ==
    mResult.op = "getMemoryBanks"
    => IF ~mResult.slots.defined /\ memVariant \in { "ZX128", "ZXNEXT" }
       THEN mResult.banks = << >>
       ELSE /\ IsPartition(mResult.banks)
            /\ memVariant \in PagedVariants
                  => IsSlotGrid(mResult.banks, SlotCount(memVariant))

\* C23 witness: the eight descriptors of the ZX Next model for an assignment
C23_Witness ==
    /\ mResult.op = "getMemoryBanks"
    /\ memVariant = "ZXNEXT"
    /\ mResult.slots.defined
    /\ Len(mResult.banks) = 8
    /\ mResult.banks[8].start = 57344 /\ mResult.banks[8].end = 65535

\* the declared and the synthetic slots cover 0x0000-0xFFFF in ascending
\* order without gap and without overlap
SlotsCover(slots) ==
    /\ Len(slots) > 0
    /\ slots[1].begin = 0
    /\ slots[Len(slots)].end = 65535
    /\ \A i \in 1..Len(slots) : slots[i].begin <= slots[i].end
    /\ \A i \in 1..(Len(slots) - 1) : slots[i + 1].begin = slots[i].end + 1

\* C24: after a custom memory was constructed from a list of declared slots,
\* its slots (the declared ones and the not populated ones that were added)
\* cover 0x0000-0xFFFF without gap and without overlap.
C24_SlotsCoverAll ==
    (customMemory.ok /\ memModel.form = "list") => SlotsCover(customMemory.slots)

\* C25: in a custom memory that was constructed from a list of declared
\* slots every slot size is a multiple of the smallest slot size: the page
\* count and the normalized bank count of every slot and the slot count are
\* integers.
C25_SizesAreMultiples ==
    (customMemory.ok /\ memModel.form = "list")
    => /\ IsInteger(customMemory.slotCount)
       /\ \A i \in 1..Len(customMemory.slots) :
             /\ customMemory.slots[i].size % customMemory.slotSize = 0
             /\ IsInteger(customMemory.slots[i].sizeInPages)
             /\ IsInteger(customMemory.slots[i].bankCount)

\* the defects of a list of declared slots that the claim names
DefectiveList(slots) ==
    \/ \E i \in 1..Len(slots) :
          \/ (slots[i].end - slots[i].begin + 1) % 1024 # 0
          \/ slots[i].begin < 0 \/ slots[i].end > 65535
    \/ \E i, j \in 1..Len(slots) : i < j /\ slots[j].begin <= slots[i].end

\* the defects of a slot table that the claim names
DefectiveTable(mm) ==
    \/ Len(mm.slots) # mm.slotCount
    \/ \E i \in 1..Len(mm.slots) :
          mm.slots[i].isNumber /\ (mm.slots[i].bank < 0 \/ mm.slots[i].bank >= mm.bankCount)

\* the errors of the assertions of the constructors
AssertErrors == { SizeError, RangeError, OrderError, SlotCountError, BankIndexError }

BankOf(variant, address, banks) == banks[(address \div BankSize(variant)) + 1]

OffsetOf(variant, address) == address % BankSize(variant)

\* C27: the long address of a byte depends on its bank and its offset in the
\* bank only: the same byte of the same bank has the same long address under
\* every slot assignment, wherever the bank is paged in.
C27_LongAddressIsStable ==
    mResult.op = "longAddress"
    => \A address \in Addresses, slots \in SlotAssignments :
          (/\ slots.defined
           /\ BankOf(memVariant, address, slots.banks)
                  = BankOf(memVariant, mResult.address, mResult.slots.banks)
           /\ OffsetOf(memVariant, address) = OffsetOf(memVariant, mResult.address))
          => LongAddress(memVariant, address, slots.banks) = mResult.long

-----------------------------------------------------------------------------
(* The forward operations in step back mode, checked under SpecO *)

\* the operations that go forward in the log
ForwardOps == { "continue", "stepOver", "stepOut", "stepInto" }

\* the calls of revDbgNext() the operation makes from the current position
RewoundSteps(op) ==
    CASE op = "continue" ->
            ForwardLoop(reverseDbgStack, logPos, revDbgHistory).steps
      [] op = "stepOver" ->
            StepOverLoop(reverseDbgStack, logPos, revDbgHistory,
                         ExpectedSP(log[logPos]), ExpectedSP2(log[logPos]),
                         NoError).steps
      [] op = "stepOut" ->
            StepOutLoop(reverseDbgStack, logPos, revDbgHistory, log[logPos].sp).steps
      [] OTHER -> 1

\* the lines from the log position to the live edge
LinesToLive == Len(log) - logPos + 1

\* the handler was called exactly once by the operation that ended
HandlerCalledOnce ==
    Cardinality({ i \in 1..Len(zEvents') : zEvents'[i] = HandlerCalled }) = 1

\* C31 (as claimed): in step back mode continue, stepOver, stepOut and
\* stepInto end, call their handler exactly once and advance at most as many
\* lines as there are from the log position to the live edge; continue always
\* ends live and with the virtual stack discarded.
C31_Forward ==
    (IsInStepBackMode /\ zOp' \in ForwardOps)
    => /\ HandlerCalledOnce
       /\ RewoundSteps(zOp') <= LinesToLive
       /\ zOp' = "continue" => (logPos' = 0 /\ reverseDbgStack' = Undefined)

C31_ContinueAlwaysLive == [][C31_Forward]_vars

\* C31 (amended): as above, but continue ends live and with the virtual
\* stack discarded when no error is thrown while it advances; when the stack
\* handling throws, continue ends with that error passed to its handler.
C31_ForwardOrError ==
    (IsInStepBackMode /\ zOp' \in ForwardOps)
    => /\ HandlerCalledOnce
       /\ RewoundSteps(zOp') <= LinesToLive
       /\ zOp' = "continue"
             => IF zError' = NoError
                THEN logPos' = 0 /\ reverseDbgStack' = Undefined
                ELSE zError' \in { AssertionError, TypeError }

C31_ContinueLiveUnlessError == [][C31_ForwardOrError]_vars

\* C31 witness: a continue in step back mode went forward to the live edge
\* of a log of three lines and ended without error
C31_Witness ==
    /\ zOp = "continue"
    /\ zError = NoError
    /\ Len(log) = 3
    /\ logPos = 0
    /\ Len(revDbgHistory) = 1
    /\ reverseDbgStack = Undefined
    /\ zEvents = ReverseDbgEvents(revDbgHistory)

\* the lines from the log position on with a RET whose SP compares to the
\* SP of the log position as given: "lower" is lower or equal, "higher" is
\* higher or equal
RetLines(cmp) ==
    { i \in logPos..Len(log) :
        /\ StartsWith(log[i].instr, InstrRET)
        /\ IF cmp = "lower" THEN log[i].sp <= log[logPos].sp
           ELSE log[i].sp >= log[logPos].sp }

\* the log position right after the first of the lines, the live edge (0)
\* when there is none or when it is the newest line
RightAfterFirst(lines) ==
    IF lines = {} THEN 0
    ELSE LET first == CHOOSE i \in lines : \A j \in lines : i <= j
         IN  IF first < Len(log) THEN first + 1 ELSE 0

\* C32 (as claimed): stepOut in step back mode stops right after the first
\* RET line whose SP is lower than or equal to the SP of the line where it
\* was started, or at the live edge when there is no such line.
C32_StopLowerEqual ==
    (IsInStepBackMode /\ zOp' = "stepOut")
    => logPos' = RightAfterFirst(RetLines("lower"))

C32_StopHigherEqual ==
    (IsInStepBackMode /\ zOp' = "stepOut" /\ zError' = NoError)
    => logPos' = RightAfterFirst(RetLines("higher"))

-----------------------------------------------------------------------------
(* The real call stack and stepOut of the running program, checked under SpecL *)

\* C33: stepOut of the running program asks for the words between SP and the
\* top of the stack, 20 at most, as realStackTraceRequest does, and examines
\* no word at or above the top of the stack.
C33_StepOutWithinStack ==
    lResult.op = "stepOut"
    => /\ lResult.depth = StackTraceDepth(lSP)
       /\ lSP + 2 * lResult.examined <= TopOfStack

\* the examined words (0 = the word SP points to) that are return addresses
\* of a CALL or RST
CallWords(depth) == { i \in 0..(depth - 1) : KindAt(i) # "DATA" }

\* the frame a data word belongs to: the frame of the last CALL or RST word
\* in front of it, or the frame of the PC
FrameOfWord(i) == 1 + Cardinality({ j \in CallWords(i + 1) : j < i })

\* the data words of the examined words, in order
RECURSIVE DataWordsOf(_, _, _)
DataWordsOf(frame, i, depth) ==
    IF i >= depth THEN << >>
    ELSE (IF KindAt(i) = "DATA" /\ FrameOfWord(i) = frame
          THEN << WordAddr("DATA") >> ELSE << >>)
         \o DataWordsOf(frame, i + 1, depth)

\* C40: the real call stack has one frame for the PC and one for every
\* examined stack word that findCallOrRst classifies as CALL or RST, 21 at
\* most; a word that is neither starts no frame, it is appended to the raw
\* stack listing of the most recent frame.
C40_FramesOfCalls ==
    lResult.op = "stackTrace"
    => /\ Len(lResult.frames) = 1 + Cardinality(CallWords(lResult.depth))
       /\ Len(lResult.frames) <= MaxStackItems + 1
       /\ \A f \in 1..Len(lResult.frames) :
             lResult.frames[f].stack = DataWordsOf(f, 0, lResult.depth)

\* C40 witness: 20 words were examined, some started frames and a data word
\* was appended to the listing of a call frame
C40_Witness ==
    /\ lResult.op = "stackTrace"
    /\ lResult.depth = MaxStackItems
    /\ Len(lResult.frames) > 2
    /\ Len(lResult.frames) < MaxStackItems + 1
    /\ lResult.frames[2].stack # << >>

-----------------------------------------------------------------------------
(* The requests that pass the serializer, checked under SpecTF *)

\* request req waits in stackTraceResponses
WaitsForStackTrace(req) ==
    \E i \in DOMAIN stackTraceResponses : stackTraceResponses[i] = req

\* the stack trace computations in progress: started, responses not yet sent
ComputationsInProgress ==
    { i \in DOMAIN tQueue : tQueue[i].job = "sendResponses" }

\* at most one computation is in progress, it is in progress exactly while
\* requests wait, no request is answered twice, and a request is answered
\* with the frames of the computation that was in progress when it arrived
StackTraceCoalesced ==
    /\ Cardinality(ComputationsInProgress) <= 1
    /\ (Len(stackTraceResponses) = 0) <=> (ComputationsInProgress = {})
    /\ \A req \in 1..MaxSessionRequests :
          /\ tSent[req] <= 1
          /\ WaitsForStackTrace(req) => tSent[req] = 0
          /\ tFrames[req] # 0 =>
                /\ tSent[req] = 1
                /\ tFrames[req] <= req
                /\ tFrames[tFrames[req]] = tFrames[req]

\* C35: concurrent stack trace requests are coalesced: at most one
\* computation is in progress, the requests received meanwhile are answered
\* with its frames, and every request receives exactly one response, after
\* which no response is pending.
C35_EveryStackTraceAnswered ==
    /\ []StackTraceCoalesced
    /\ \A req \in 1..MaxSessionRequests :
          WaitsForStackTrace(req) ~> (tSent[req] = 1 /\ ~WaitsForStackTrace(req))

\* the function of request req holds the gate of the serializer
HoldsGate(req) == Len(tQueue) > 0 /\ Head(tQueue).req = req

\* C36: every request that acquires the gate of the serializer releases it
\* at some time by calling endExec(), also when the call of the remote fails.
C36_GateReleased ==
    \A req \in 1..MaxSessionRequests : HoldsGate(req) ~> ~HoldsGate(req)

-----------------------------------------------------------------------------
(* continue and pause of the running program, checked under SpecCF *)

\* the state is RUNNING until the emulator has answered 'run', the handler
\* of a continue is called at most once, and the state is IDLE when it is
RunningUntilStopped ==
    /\ cAwaited \in BeforeStop => state = "RUNNING"
    /\ cHandler <= 1
    /\ cHandler = 1 => cHandlerState = "IDLE"
    /\ cAwaited = NoCommand => state = "IDLE"

-----------------------------------------------------------------------------
(* Reading forward and the history spot of the history store, checked under Spec *)

\* getNextRegisters() with the read index live gives no line and leaves the
\* read index live, and only getPrevRegistersAsync() leaves the live state
LiveForwardIsNone ==
    /\ (historyIndex = -1 /\ lastOp' = "stepForward") =>
          (lastLine' = NONE /\ historyIndex' = -1)
    /\ (historyIndex = -1 /\ historyIndex' # -1) => lastOp' = "stepBack"

\* C37: getNextRegisters called while the store is live returns NONE and
\* leaves the read cursor live, for every content of the buffer; the store
\* leaves the live state only through stepBack (getPrevRegistersAsync).
C37_LiveForwardIsNone == [][LiveForwardIsNone]_vars

(* The history spot, checked under SpecH *)

\* the sequence has no element twice
NoRepeats(seq) == \A i, j \in DOMAIN seq : i # j => seq[i] # seq[j]

RECURSIVE ReverseSeq(_)
ReverseSeq(seq) ==
    IF Len(seq) = 0 THEN << >> ELSE Append(ReverseSeq(Tail(seq)), Head(seq))

\* the index of the line at the read index, of the newest line when live
SpotPosition == IF historyIndex < 0 THEN historyWriteIndex ELSE historyIndex

\* the index of the oldest line of a buffer that is not empty
OldestIndex ==
    IF historyWriteIndex + 1 >= Len(history) THEN 0 ELSE historyWriteIndex + 1

\* one event whose window has every line at most once, at most count + 1
\* lines from the position back to the oldest line and at most count lines
\* from behind the position up to the newest line
SpotWindow(sp) ==
    LET window == ReverseSeq(sp.after) \o sp.before
    IN  /\ sp.events = 1
        /\ sp.error = NoError
        /\ NoRepeats(window)
        /\ \A k \in DOMAIN window : window[k] \in 0..(Len(history) - 1)
        /\ sp.addresses = [k \in DOMAIN window |-> GetAt(history, window[k]).pc]
        /\ Len(sp.before) \in 1..(sp.count + 1)
        /\ Len(sp.after) <= sp.count
        /\ \A k \in DOMAIN sp.before :
              /\ sp.before[k] = (SpotPosition + Len(history) * sp.count - (k - 1)) % Len(history)
              /\ k > 1 => sp.before[k] # historyWriteIndex
        /\ \A k \in DOMAIN sp.after :
              /\ sp.after[k] = (SpotPosition + k) % Len(history)
              /\ sp.after[k] # OldestIndex

\* emitHistorySpot() has just run
SpotEmitted == spot = NoSpot /\ spot' # NoSpot

SpotAlways ==
    SpotEmitted =>
        /\ UNCHANGED <<history, historyIndex, historyWriteIndex>>
        /\ spot'.count <= 0 => spot'.events = 0
        /\ spot'.count > 0 => SpotWindow(spot')

\* C38: emitHistorySpot emits nothing when spotCount <= 0 and otherwise
\* exactly one historySpot event; its window has each retained line at most
\* once, at most spotCount + 1 lines at or before the position and at most
\* spotCount after it, does not cross the write index, and the read and
\* write index are unchanged.
C38_SpotAlways == [][SpotAlways]_vars

SpotOfLines ==
    SpotEmitted =>
        /\ UNCHANGED <<history, historyIndex, historyWriteIndex>>
        /\ spot'.count <= 0 => spot'.events = 0
        /\ (spot'.count > 0 /\ Len(history) > 0) => SpotWindow(spot')
        /\ (spot'.count > 0 /\ Len(history) = 0) =>
              (spot'.events = 0 /\ spot'.error = AssertionError)

\* C38 amended: the same for a history that is not empty; with an empty
\* history and spotCount > 0 the assertion fails and nothing is emitted.
C38_SpotOfLines == [][SpotOfLines]_vars

\* a spot in the middle of a wrapped buffer: lines on both sides
C38_Witness ==
    /\ spot.events = 1
    /\ Len(history) = 3
    /\ historyWriteIndex = 1
    /\ historyIndex = 0
    /\ spot.before = << 0, 2 >>
    /\ spot.after = << 1 >>

-----------------------------------------------------------------------------
(* The bank control ports, checked under SpecP *)

\* the slots (pages of slotSize) of the address range of a slot
PagesOf(slot) == slot.firstSlot..(slot.firstSlot + slot.sizeInPages - 1)

\* the banks allocated to a slot
BanksOf(slot) == slot.firstBank..(slot.firstBank + slot.bankCount - 1)

\* a write changes the assignment only in the ranges of the slots whose
\* port it is, and there only to banks allocated to that slot
WriteStaysInSlot ==
    LET infos == PortSlots(pModel)
        hit == { i \in 1..Len(infos) : Matcher(infos[i].control, pOut'.port) }
    IN  \A j \in DOMAIN pSlots :
          /\ (\A i \in hit : j - 1 \notin PagesOf(infos[i])) => pSlots'[j] = pSlots[j]
          /\ \A i \in hit :
                j - 1 \in PagesOf(infos[i]) => pSlots'[j] \in BanksOf(infos[i])

\* C39: every value written to the bank select port of a slot changes only
\* the slot assignments of the address range of that slot, and the banks it
\* maps lie in the range [firstBank, firstBank+bankCount) of that slot.
C39_WriteStaysInSlot == [][WriteStaysInSlot]_vars

====
